---- MODULE Spec2Model ----
(***************************************************************************)
(* A model of the metadata extraction core of mzml2isa:                    *)
(*   - the XML document as a tree of elements and the ElementPath queries  *)
(*     the extractor issues against it (mzml2isa/mzml.py, _find_xpath);    *)
(*   - the schema environment resolver (MzMLFile.environment);             *)
(*   - the per-scan collectors of mzml2isa/meta_collectors.py and the      *)
(*     whole-document extractors of MzMLFile that compute the same         *)
(*     summaries (polarity, time range, m/z range);                        *)
(*   - the CV parameter extractor, the instrument resolver and the         *)
(*     accession URL rewriting.                                            *)
(*                                                                         *)
(* Numbers read from the document are fixed-point integers: an m/z value v *)
(* stands for v/2, a scan start time t stands for t * 0.00005 minutes, so  *)
(* that int(), round(x, 4) and "{:.3f}" are conversions that change the    *)
(* value.  Strings that the code splits are sequences of characters.       *)
(***************************************************************************)
EXTENDS Integers, Sequences, FiniteSets, TLC

VARIABLES
    doc,      \* the parsed document (self.tree), an element tree
    env,      \* the cached MzMLFile.environment, NotCached until first used
    mode,     \* which implementation runs: "collector" or "mzmlfile"
    pc,       \* position of the running extraction
    idx,      \* index of the next scan element handed to the collector
    pos,      \* Polarity.pos
    neg,      \* Polarity.neg
    timeRange, \* the TimeRange collector: minrt, maxrt, unit
    mzRange,  \* the MzRange collector: unit, minmz, maxmz
    meta,     \* the metadata dictionary being filled
    warned,   \* the warnings emitted so far (warnings.warn)
    err,      \* the exception that ended the extraction, "none" if none
    urls,     \* an accession and its successive rewritings
    metas,    \* a dictionary and its successive rewritings by _urlize_meta
    onto,     \* the vocabulary: the term graph, id -> parents and children
    parameters, \* the list of _CVParameter descriptors of the location
    location, \* the query template of the location being extracted
    mzml_files, \* full_parse: the files of the batch
    multip,   \* full_parse: whether a worker pool parses the files
    merging,  \* full_parse: the argument merge
    metalist, \* full_parse: the metadata collected so far
    ext,      \* full_parse: the local variable ext, None while unbound
    written,  \* what the ISA-Tab writer has received, None before
    visits,   \* the scan elements visited so far, in order of visit
    dataFileContent, \* the DataFileContent collector: entry_list and _memo
    args,     \* the arguments of the function being applied
    result    \* the value the function has returned, None before

\* The variables the scan summaries leave alone.
batch == <<mzml_files, multip, merging, metalist, ext, written>>

call == <<args, result>>

others == <<urls, metas, onto, parameters, location, batch, visits,
            dataFileContent, call>>

vars == <<doc, env, mode, pc, idx, pos, neg, timeRange, mzRange, meta, warned, err,
          others>>

\* ---------------------------------------------------------------- bounds

MaxScans == 2
MaxAccessionLen == 5
MaxEntries == 2
\* Terms of a vocabulary.
MaxTerms == 3
\* cvParam elements at one location.
MaxElements == 5
\* Files of a batch.
MaxFiles == 3
\* the longest string handed to longest_substring
MaxNameLen == 3
\* the most [Term] stanzas in a vocabulary file read on its own
MaxStanzas == 3
\* the most documents handed to ISA_Tab.create_assay
MaxDocs == 2

\* ------------------------------------------------------------- utilities

RECURSIVE Concat(_)
Concat(seqs) ==
    IF seqs = <<>> THEN <<>> ELSE Head(seqs) \o Concat(Tail(seqs))

Range(s) == {s[k] : k \in DOMAIN s}

SeqsUpTo(S, n) == UNION {[1..k -> S] : k \in 0..n}

SetMin(S) == CHOOSE x \in S : \A y \in S : x <= y
SetMax(S) == CHOOSE x \in S : \A y \in S : x >= y

\* Python's None inside a container of strings: the empty option.
None == <<>>
Some(v) == <<v>>

\* ------------------------------------------------- the metadata dictionary

EmptyMeta == [k \in {} |-> <<>>]

Put(m, k, v) == [x \in (DOMAIN m) \cup {k} |-> IF x = k THEN v ELSE m[x]]

\* ---------------------------------------------------- the element tree

Elem(tag, attrib, children) ==
    [tag |-> tag, attrib |-> attrib, children |-> children]

NoAttrib == [k \in {} |-> ""]

\* One location step of an ElementPath: a tag, "." for the context node,
\* optionally restricted to the elements carrying an attribute ([@name]).
StepMatches(e, step) ==
    /\ e.tag = step.tag
    /\ step.attr # None => step.attr[1] \in DOMAIN e.attrib

Select(context, step) ==
    IF step.tag = "."
    THEN context
    ELSE Concat([k \in DOMAIN context |->
                    SelectSeq(context[k].children,
                              LAMBDA c : StepMatches(c, step))])

\* Element.iterfind(path): the steps are applied one after the other to the
\* sequence of context nodes, which keeps document order.
RECURSIVE IterFind(_, _)
IterFind(context, path) ==
    IF path = <<>> THEN context
    ELSE IterFind(Select(context, Head(path)), Tail(path))

\* ------------------------------------------------ query templates

L(s) == <<"lit", s>>
V(r) == <<"var", r>>
Seg(pieces) == [pieces |-> pieces, attr |-> None]
SegAttr(pieces, a) == [pieces |-> pieces, attr |-> Some(a)]
T(s) == Seg(<<L(s)>>)
R(r) == Seg(<<V(r)>>)
RL(r) == Seg(<<V(r), L("List")>>)

\* The replacement fields of a template: str.format raises KeyError when
\* one of them is not a key of the environment.
TemplateVars(template) ==
    UNION {{p[2] : p \in {q \in Range(template[k].pieces) : q[1] = "var"}} :
              k \in DOMAIN template}

\* str.format renders None as the text "None".
FormatPiece(piece, e) ==
    IF piece[1] = "lit" THEN piece[2]
    ELSE IF e[piece[2]] = None THEN "None" ELSE e[piece[2]][1]

RECURSIVE FormatPieces(_, _)
FormatPieces(pieces, e) ==
    IF pieces = <<>> THEN ""
    ELSE FormatPiece(Head(pieces), e) \o FormatPieces(Tail(pieces), e)

\* path.format(**env), for a template whose fields are all keys of env.
Format(template, e) ==
    [k \in DOMAIN template |->
        [tag |-> FormatPieces(template[k].pieces, e), attr |-> template[k].attr]]

\* The text of a template step as written in the source.
RECURSIVE RawPieces(_)
RawPieces(pieces) ==
    IF pieces = <<>> THEN ""
    ELSE (IF Head(pieces)[1] = "lit" THEN Head(pieces)[2]
          ELSE "{" \o Head(pieces)[2] \o "}") \o RawPieces(Tail(pieces))

\* posixpath.basename(path)
Basename(template) == RawPieces(template[Len(template)].pieces)

\* re.search(r"\[@(.*)\]", path).group(1)
AttributeName(template) == template[Len(template)].attr[1]

\* ------------------------------------------------ the environment tables

\* MzMLFile._environment_paths, in declaration order.
EnvironmentPaths == <<
    [key |-> "root", paths |-> <<
        <<T("."), T("s:mzML")>>,
        <<T(".")>> >>],
    [key |-> "spectrum", paths |-> <<
        <<R("root"), T("s:run"), T("s:spectrumList"), T("s:spectrum")>>,
        <<R("root"), T("s:run"), T("s:chromatogramList"), T("s:chromatogram")>> >>],
    [key |-> "scanList", paths |-> <<
        <<R("root"), T("s:run"), RL("spectrum"), R("spectrum"), T("s:scanList")>>,
        <<R("root"), T("s:run"), RL("spectrum"), R("spectrum"),
          T("s:spectrumDescription")>> >>],
    [key |-> "scanWindow", paths |-> <<
        <<R("root"), T("s:run"), RL("spectrum"), R("spectrum"), R("scanList"),
          T("s:scan"), T("s:scanWindowList"), T("s:scanWindow")>>,
        <<R("root"), T("s:run"), RL("spectrum"), R("spectrum"), R("scanList"),
          T("s:scan"), T("s:selectionWindowList"), T("s:selectionWindow")>> >>],
    [key |-> "instrument", paths |-> <<
        <<R("root"), T("s:instrumentConfigurationList"),
          T("s:instrumentConfiguration")>>,
        <<R("root"), T("s:instrumentList"), T("s:instrument")>> >>],
    [key |-> "software", paths |-> <<
        <<R("root"), RL("instrument"), R("instrument"), T("s:softwareRef")>>,
        <<R("root"), RL("instrument"), R("instrument"),
          T("s:instrumentSoftwareRef")>> >>],
    [key |-> "software_params", paths |-> <<
        <<R("root"), T("s:softwareList"), T("s:software"), T("s:softwareParam")>>,
        <<R("root"), T("s:softwareList"), T("s:software"), T("s:cvParam")>> >>]
    >>

\* MzMLFile._environment_attributes, in declaration order.
EnvironmentAttributes == <<
    [key |-> "filename", paths |-> <<
        <<R("root"), T("s:fileDescription"), T("s:sourceFileList"),
          SegAttr(<<L("s:sourceFile")>>, "name")>>,
        <<R("root"), T("s:fileDescription"), T("s:sourceFileList"),
          SegAttr(<<L("s:sourceFile")>>, "filename")>>,
        <<R("root"), T("s:fileDescription"), T("s:sourceFileList"),
          SegAttr(<<L("s:sourceFile")>>, "sourceFileName")>> >>],
    [key |-> "cvRef", paths |-> <<
        <<R("root"), T("s:referenceableParamGroupList"),
          T("s:referenceableParamGroup"), SegAttr(<<L("s:cvParam")>>, "cvLabel")>>,
        <<R("root"), T("s:referenceableParamGroupList"),
          T("s:referenceableParamGroup"), SegAttr(<<L("s:cvParam")>>, "cvRef")>>,
        <<R("root"), T("s:run"), RL("spectrum"), R("spectrum"),
          SegAttr(<<L("s:cvParam")>>, "cvRef")>> >>],
    [key |-> "cvLabel", paths |-> <<
        <<R("root"), T("s:cvList"), SegAttr(<<L("s:cv")>>, "id")>>,
        <<R("root"), T("s:cvList"), SegAttr(<<L("s:cv")>>, "cvLabel")>> >>],
    [key |-> "softwareRef", paths |-> <<
        <<R("root"), RL("instrument"), R("instrument"),
          SegAttr(<<V("software")>>, "ref")>> >>]
    >>

\* ------------------------------------------------ environment resolution

Root(d) == <<d>>

\* A loop over the alternatives that lets the last one found win.
RECURSIVE LastAlternative(_, _, _, _)
LastAlternative(d, paths, e, k) ==
    IF k > Len(paths) THEN 0
    ELSE IF ~(TemplateVars(paths[k]) \subseteq DOMAIN e) THEN -1
    ELSE LET later == LastAlternative(d, paths, e, k + 1)
         IN  IF later # 0 THEN later
             ELSE IF IterFind(Root(d), Format(paths[k], e)) # <<>> THEN k
             ELSE 0

\* The for/else loop over the alternatives of one role: the index of the
\* first alternative whose query finds an element, 0 when the loop runs to
\* its else branch, -1 when formatting an alternative raises KeyError.
RECURSIVE FirstAlternative(_, _, _, _)
FirstAlternative(d, paths, e, k) ==
    IF k > Len(paths) THEN 0
    ELSE IF ~(TemplateVars(paths[k]) \subseteq DOMAIN e) THEN -1
    ELSE IF IterFind(Root(d), Format(paths[k], e)) # <<>> THEN k
    ELSE FirstAlternative(d, paths, e, k + 1)

\* env[key] = shortcut of the alternative found, or None.
Assign(e, key, paths, k, isAttribute) ==
    Put(e, key, IF k = 0 THEN None
                ELSE IF isAttribute THEN Some(AttributeName(paths[k]))
                ELSE Some(Basename(paths[k])))

\* One of the two loops of MzMLFile.environment over a table, from entry n.
RECURSIVE Resolve(_, _, _, _, _)
Resolve(d, table, st, n, isAttribute) ==
    IF n > Len(table) \/ st.err # "none" THEN st
    ELSE LET k == FirstAlternative(d, table[n].paths, st.env, 1)
         IN  IF k = -1
             THEN [env |-> st.env, err |-> "KeyError"]
             ELSE Resolve(d, table,
                          [env |-> Assign(st.env, table[n].key, table[n].paths,
                                          k, isAttribute),
                           err |-> "none"],
                          n + 1, isAttribute)

\* MzMLFile.environment: [env, err].
Environment(d) ==
    Resolve(d, EnvironmentAttributes,
            Resolve(d, EnvironmentPaths,
                    [env |-> EmptyMeta, err |-> "none"], 1, FALSE),
            1, TRUE)

\* The cached property before its first use.
NotCached == EmptyMeta

\* The first use of self.environment: the property is computed and cached.
BuildEnvironment ==
    /\ env = NotCached /\ err = "none"
    /\ env' = Environment(doc).env
    /\ err' = Environment(doc).err
    /\ UNCHANGED <<doc, mode, pc, idx, pos, neg, timeRange, mzRange, meta,
                   warned, others>>

\* MzMLFile._XPATHS (the entries the scan summaries use).
XPATH_sp == <<R("root"), T("s:run"), RL("spectrum"), R("spectrum")>>
XPATH_sp_cv == XPATH_sp \o <<T("s:cvParam")>>
XPATH_scan_cv ==
    XPATH_sp \o <<R("scanList"), T("s:scan"), T("s:cvParam")>>
\* The window query with the tag of one alternative written in.
XPATH_scan_window_cv_tagged ==
    XPATH_sp \o <<R("scanList"), T("s:scan"), T("s:scanWindowList"),
                  T("s:scanWindow"), T("s:cvParam")>>
XPATH_scan_window_cv ==
    XPATH_sp \o <<R("scanList"), T("s:scan"), RL("scanWindow"),
                  R("scanWindow"), T("s:cvParam")>>

\* meta_collectors.SCAN_XPATHS
SCAN_XPATHS_cv == <<T("."), T("s:cvParam")>>
SCAN_XPATHS_scan_cv == <<T("."), R("scanList"), T("s:scan"), T("s:cvParam")>>
SCAN_XPATHS_scan_window_cv ==
    <<T("."), R("scanList"), T("s:scan"), RL("scanWindow"), R("scanWindow"),
      T("s:cvParam")>>

\* MzMLFile._find_xpath(query), with the environment e
FindXPath(d, e, query) == IterFind(Root(d), Format(query, e))

\* The scan elements handed to the collectors one at a time.
ScanElements(d, e) == FindXPath(d, e, XPATH_sp)

\* The scan elements a query goes through when its results are consumed to
\* the end: every scan element, in document order.
ScanVisits(d, e) == [k \in 1..Len(ScanElements(d, e)) |-> k]

\* The same when the consumer stops at the first result found among the
\* elements of stopping: the results are generated lazily, so the scan
\* elements after the one holding that result are not reached.
ScanVisitsUntil(d, e, query, stopping) ==
    LET sp == ScanElements(d, e)
        rest == Format(SubSeq(query, Len(XPATH_sp) + 1, Len(query)), e)
        hits == {k \in DOMAIN sp :
                    Range(IterFind(<<sp[k]>>, rest)) \cap stopping # {}}
        last == IF hits = {} THEN Len(sp)
                ELSE CHOOSE k \in hits : \A h \in hits : k <= h
    IN  [k \in 1..last |-> k]

\* MzMLFile.metadata calls the scan summaries one after the other; an
\* exception leaves it.
AfterSummary(step, m, raised) ==
    IF m # "metadata" \/ raised THEN "done"
    ELSE IF step = "polarity" THEN "timerange"
    ELSE IF step = "timerange" THEN "mzrange"
    ELSE IF step = "mzrange" THEN "scan_number"
    ELSE IF step = "scan_number" THEN "scan_parameters"
    ELSE "done"

UnchangedButVisits ==
    UNCHANGED <<urls, metas, onto, parameters, location, batch, dataFileContent,
                call>>

\* ------------------------------------------------ numbers

\* A float: finite (a fixed-point integer) or one of the two infinities.
Fin(v) == <<"fin", v>>
PosInf == <<"+inf">>
NegInf == <<"-inf">>

Leq(a, b) ==
    \/ a = NegInf
    \/ b = PosInf
    \/ a[1] = "fin" /\ b[1] = "fin" /\ a[2] <= b[2]

\* min(a, b) and max(a, b) of two floats
PyMin(a, b) == IF Leq(a, b) THEN a ELSE b
PyMax(a, b) == IF Leq(b, a) THEN a ELSE b

\* Rounding a non-negative fixed-point number to a multiple of unit, ties
\* to even, as round() and "{:.3f}" do.
RoundHalfEven(x, unit) ==
    LET q == x \div unit
        r == x % unit
    IN  IF 2 * r < unit THEN q * unit
        ELSE IF 2 * r > unit THEN (q + 1) * unit
        ELSE IF q % 2 = 0 THEN q * unit ELSE (q + 1) * unit

\* round(x, 4): a time t stands for t * 0.00005, the 4th decimal is 2 units.
Round4(x) == RoundHalfEven(x, 2)
\* "{:.3f}".format(x): the 3rd decimal is 20 units.
Format3f(x) == RoundHalfEven(x, 20)
\* int(x) of an m/z value v standing for v/2: truncation.
IntMz(x) == x \div 2

\* ------------------------------------------------ Polarity

HasAccession(elements, accession) ==
    \E k \in DOMAIN elements : elements[k].attrib.accession = accession

\* The flag after Polarity.process_scan has looked at the scan's cvParams.
PolarityUpdateLast(flag, elem, e, accession) ==
    HasAccession(IterFind(<<elem>>, Format(SCAN_XPATHS_cv, e)), accession)

PolarityUpdate(flag, elem, e, accession) ==
    flag \/ HasAccession(IterFind(<<elem>>, Format(SCAN_XPATHS_cv, e)),
                         accession)

\* The entry both implementations build from the two flags.
PolarityEntry(p, n) ==
    IF p /\ n THEN [name |-> "alternating scan", ref |-> "", accession |-> ""]
    ELSE IF p THEN [name |-> "positive scan", ref |-> "MS",
                    accession |-> "MS:1000130"]
    ELSE IF n THEN [name |-> "negative scan", ref |-> "MS",
                    accession |-> "MS:1000129"]
    ELSE [name |-> "n/a", ref |-> "", accession |-> ""]

UnchangedCollectors == UNCHANGED <<pos, neg, timeRange, mzRange>>

\* Polarity.process_scan(elem, env, ns) on the next scan element
PolarityProcessScan ==
    /\ env # NotCached
    /\ mode = "collector" /\ pc = "polarity"
    /\ idx <= Len(ScanElements(doc, env))
    /\ LET elem == ScanElements(doc, env)[idx]
       IN  /\ pos' = PolarityUpdate(pos, elem, env, "MS:1000130")
           /\ neg' = PolarityUpdate(neg, elem, env, "MS:1000129")
    /\ idx' = idx + 1
    /\ UNCHANGED <<doc, env, mode, pc, timeRange, mzRange, meta, warned, err>>
    /\ visits' = Append(visits, idx)
    /\ UnchangedButVisits

\* Polarity.populate_meta(meta), once the stream has ended
PolarityPopulateMeta ==
    /\ env # NotCached
    /\ mode = "collector" /\ pc = "polarity"
    /\ idx > Len(ScanElements(doc, env))
    /\ meta' = Put(meta, "Scan polarity", PolarityEntry(pos, neg))
    /\ pc' = "done"
    /\ UNCHANGED <<doc, env, mode, idx, warned, err>>
    /\ UNCHANGED others
    /\ UnchangedCollectors

\* MzMLFile._extract_polarity(meta)
ExtractPolarity ==
    /\ env # NotCached
    /\ mode \in {"mzmlfile", "metadata"} /\ pc = "polarity"
    /\ LET sp_cv == FindXPath(doc, env, XPATH_sp_cv)
       IN  meta' = Put(meta, "Scan polarity",
                       PolarityEntry(HasAccession(sp_cv, "MS:1000130"),
                                     HasAccession(sp_cv, "MS:1000129")))
    /\ pc' = AfterSummary("polarity", mode, FALSE)
    /\ UNCHANGED <<doc, env, mode, idx, warned, err>>
    /\ visits' = visits \o ScanVisits(doc, env)
    /\ UnchangedButVisits
    /\ UnchangedCollectors

\* ------------------------------------------------ TimeRange

\* meta_collectors._unitInfo(elem)
UnitInfo(elem) ==
    [name |-> elem.attrib.unitName,
     accession |-> elem.attrib.unitAccession,
     ref |-> elem.attrib.unitCvRef]

\* The body of the loop of TimeRange.process_scan for one cvParam.
TimeRangeObserveLast(st, i) ==
    IF i.attrib.accession = "MS:1000016"
    THEN [minrt |-> Fin(i.attrib.value),
          maxrt |-> PyMax(Fin(i.attrib.value), st.maxrt),
          unit |-> IF "unitName" \in DOMAIN i.attrib /\ st.unit = None
                   THEN Some(UnitInfo(i)) ELSE st.unit]
    ELSE st

TimeRangeObserve(st, i) ==
    IF i.attrib.accession = "MS:1000016"
    THEN [minrt |-> PyMin(Fin(i.attrib.value), st.minrt),
          maxrt |-> PyMax(Fin(i.attrib.value), st.maxrt),
          unit |-> IF "unitName" \in DOMAIN i.attrib /\ st.unit = None
                   THEN Some(UnitInfo(i)) ELSE st.unit]
    ELSE st

RECURSIVE TimeRangeLoop(_, _)
TimeRangeLoop(st, elements) ==
    IF elements = <<>> THEN st
    ELSE TimeRangeLoop(TimeRangeObserve(st, Head(elements)), Tail(elements))

\* TimeRange.process_scan(elem, env, ns) on the next scan element
TimeRangeProcessScan ==
    /\ env # NotCached
    /\ mode = "collector" /\ pc = "timerange"
    /\ idx <= Len(ScanElements(doc, env))
    /\ timeRange' =
           TimeRangeLoop(timeRange,
                         IterFind(<<ScanElements(doc, env)[idx]>>,
                                  Format(SCAN_XPATHS_scan_cv,
                                         env)))
    /\ idx' = idx + 1
    /\ UNCHANGED <<doc, env, mode, pc, pos, neg, mzRange, meta, warned, err>>
    /\ visits' = Append(visits, idx)
    /\ UnchangedButVisits

\* A range value "lo-hi" is kept as the pair of its two numbers.
RangeValue(lo, hi) == <<lo, hi>>

\* TimeRange.populate_meta(meta)
TimeRangePopulateMeta ==
    /\ env # NotCached
    /\ mode = "collector" /\ pc = "timerange"
    /\ idx > Len(ScanElements(doc, env))
    /\ meta' =
           IF timeRange.minrt = PosInf THEN meta
           ELSE LET value == RangeValue(Round4(timeRange.minrt[2]),
                                        Round4(timeRange.maxrt[2]))
                IN  Put(meta, "Time range",
                        IF timeRange.unit # None
                        THEN [value |-> value, unit |-> timeRange.unit[1]]
                        ELSE [value |-> value])
    /\ pc' = "done"
    /\ UNCHANGED <<doc, env, mode, idx, warned, err>>
    /\ UNCHANGED others
    /\ UnchangedCollectors

\* The values of the cvParams with the given accession, in document order.
ValuesOf(elements, accession) ==
    LET hits == SelectSeq(elements,
                          LAMBDA i : i.attrib.accession = accession)
    IN  [k \in DOMAIN hits |-> hits[k].attrib.value]

\* MzMLFile._extract_timerange(meta): min() of no times raises ValueError,
\* which is swallowed; the unit's cvRef default is evaluated eagerly and
\* raises KeyError when the element has no such attribute.
ExtractTimerange ==
    /\ env # NotCached
    /\ mode \in {"mzmlfile", "metadata"} /\ pc = "timerange"
    /\ LET e == env
           scan_cv == FindXPath(doc, env, XPATH_scan_cv)
           times == ValuesOf(scan_cv, "MS:1000016")
           units == SelectSeq(scan_cv,
                        LAMBDA i : /\ i.attrib.accession = "MS:1000016"
                                   /\ "unitName" \in DOMAIN i.attrib)
           value == RangeValue(Format3f(SetMin(Range(times))),
                               Format3f(SetMax(Range(times))))
       IN  IF times = <<>>
           THEN meta' = meta /\ err' = err
           ELSE IF units = <<>>
           THEN meta' = Put(meta, "Time range", [value |-> value]) /\ err' = err
           ELSE IF e["cvRef"] = None \/ e["cvRef"][1] \notin DOMAIN units[1].attrib
           THEN /\ meta' = Put(meta, "Time range", [value |-> value])
                /\ err' = "KeyError"
           ELSE /\ meta' = Put(meta, "Time range",
                               [value |-> value,
                                unit |-> [name |-> units[1].attrib.unitName,
                                          accession |-> units[1].attrib.unitAccession,
                                          ref |-> IF "unitCvRef" \in DOMAIN units[1].attrib
                                                  THEN units[1].attrib.unitCvRef
                                                  ELSE units[1].attrib[e["cvRef"][1]]]])
                /\ err' = err
    /\ pc' = AfterSummary("timerange", mode, err' # "none")
    /\ UNCHANGED <<doc, env, mode, idx, warned>>
    /\ visits' =
           visits \o ScanVisits(doc, env)
           \o IF ValuesOf(FindXPath(doc, env, XPATH_scan_cv), "MS:1000016") = <<>>
              THEN <<>>
              ELSE ScanVisitsUntil(doc, env, XPATH_scan_cv,
                       {i \in Range(FindXPath(doc, env, XPATH_scan_cv)) :
                           /\ i.attrib.accession = "MS:1000016"
                           /\ "unitName" \in DOMAIN i.attrib})
    /\ UnchangedButVisits
    /\ UnchangedCollectors

\* ------------------------------------------------ MzRange

\* The body of the loop of MzRange.process_scan for one cvParam.
MzRangeObserve(st, i) ==
    LET lower == IF i.attrib.accession = "MS:1000501"
                 THEN [unit |-> IF "unitName" \in DOMAIN i.attrib /\ st.unit = None
                                THEN Some(UnitInfo(i)) ELSE st.unit,
                       minmz |-> PyMin(Fin(i.attrib.value), st.maxmz),
                       maxmz |-> st.maxmz]
                 ELSE st
    IN  IF i.attrib.accession = "MS:1000500"
        THEN [unit |-> lower.unit,
              minmz |-> lower.minmz,
              maxmz |-> PyMax(Fin(i.attrib.value), lower.maxmz)]
        ELSE lower

RECURSIVE MzRangeLoop(_, _)
MzRangeLoop(st, elements) ==
    IF elements = <<>> THEN st
    ELSE MzRangeLoop(MzRangeObserve(st, Head(elements)), Tail(elements))

\* MzRange.process_scan(elem, env, ns) on the next scan element
MzRangeProcessScan ==
    /\ env # NotCached
    /\ mode = "collector" /\ pc = "mzrange"
    /\ idx <= Len(ScanElements(doc, env))
    /\ mzRange' =
           MzRangeLoop(mzRange,
                       IterFind(<<ScanElements(doc, env)[idx]>>,
                                Format(SCAN_XPATHS_scan_window_cv,
                                       env)))
    /\ idx' = idx + 1
    /\ UNCHANGED <<doc, env, mode, pc, pos, neg, timeRange, meta, warned, err>>
    /\ visits' = Append(visits, idx)
    /\ UnchangedButVisits

\* MzRange.populate_meta(meta): int() of an infinity raises OverflowError.
MzRangePopulateMeta ==
    /\ env # NotCached
    /\ mode = "collector" /\ pc = "mzrange"
    /\ idx > Len(ScanElements(doc, env))
    /\ IF mzRange.minmz = PosInf
       THEN meta' = meta /\ err' = err
       ELSE IF mzRange.minmz[1] # "fin" \/ mzRange.maxmz[1] # "fin"
       THEN meta' = meta /\ err' = "OverflowError"
       ELSE LET value == RangeValue(IntMz(mzRange.minmz[2]),
                                    IntMz(mzRange.maxmz[2]))
            IN  /\ meta' = Put(meta, "Scan m/z range",
                               IF mzRange.unit # None
                               THEN [value |-> value, unit |-> mzRange.unit[1]]
                               ELSE [value |-> value])
                /\ err' = err
    /\ pc' = "done"
    /\ UNCHANGED <<doc, env, mode, idx, warned>>
    /\ UNCHANGED others
    /\ UnchangedCollectors

\* The body of MzMLFile._extract_mzrange on document d with environment e:
\* min() or max() of an empty list raises ValueError, which is turned into
\* a warning (type(self) is MzMLFile).
MzrangeOf(d, e, m, w) ==
    LET elements == FindXPath(d, e, XPATH_scan_window_cv)
        lows == SelectSeq(elements,
                    LAMBDA i : i.attrib.accession = "MS:1000501")
        lowsUnit == SelectSeq(lows, LAMBDA i : "unitName" \in DOMAIN i.attrib)
        mins == ValuesOf(elements, "MS:1000501")
        maxs == ValuesOf(elements, "MS:1000500")
        value == RangeValue(IntMz(SetMin(Range(mins))),
                            IntMz(SetMax(Range(maxs))))
    IN  IF mins = <<>> \/ maxs = <<>>
        THEN [meta |-> m,
              warned |-> w \cup {"Could not find any m/z range"}]
        ELSE [meta |-> Put(m, "Scan m/z range",
                           IF lowsUnit # <<>>
                           THEN [value |-> value,
                                 unit |-> [name |-> lowsUnit[1].attrib.unitName,
                                           ref |-> lowsUnit[1].attrib.unitCvRef,
                                           accession |-> lowsUnit[1].attrib.unitAccession]]
                           ELSE [value |-> value]),
              warned |-> w]

\* MzMLFile._extract_mzrange(meta)
ExtractMzrange ==
    /\ env # NotCached
    /\ mode \in {"mzmlfile", "metadata"} /\ pc = "mzrange"
    /\ meta' = MzrangeOf(doc, env, meta, warned).meta
    /\ warned' = MzrangeOf(doc, env, meta, warned).warned
    /\ pc' = AfterSummary("mzrange", mode, FALSE)
    /\ UNCHANGED <<doc, env, mode, idx, err>>
    /\ visits' = visits \o ScanVisits(doc, env)
    /\ UnchangedButVisits
    /\ UnchangedCollectors

\* ------------------------------------------------ accession URLs

\* "http://purl.obolibrary.org/obo/", the text before the first field of the
\* template used for the MS and UO namespaces.
OboUrlPrefix ==
    <<"h", "t", "t", "p", ":", "/", "/", "p", "u", "r", "l", ".", "o", "b",
      "o", "l", "i", "b", "r", "a", "r", "y", ".", "o", "r", "g", "/", "o",
      "b", "o", "/">>

\* "http://www.maldi-msi.org/download/imzml/imagingMS.obo#", the text before
\* the first field of the template used for the IMS namespace.
ImsUrlPrefix ==
    <<"h", "t", "t", "p", ":", "/", "/", "w", "w", "w", ".", "m", "a", "l",
      "d", "i", "-", "m", "s", "i", ".", "o", "r", "g", "/", "d", "o", "w",
      "n", "l", "o", "a", "d", "/", "i", "m", "z", "m", "l", "/", "i", "m",
      "a", "g", "i", "n", "g", "M", "S", ".", "o", "b", "o", "#">>

\* The position of the first ":" of a string, 0 when it has none.
FirstColon(a) ==
    LET hits == {k \in DOMAIN a : a[k] = ":"}
    IN  IF hits = {} THEN 0 ELSE SetMin(hits)

\* A rewriting that applies the OBO template whatever the namespace.
UrlizeAnyNamespace(accession) ==
    LET k == FirstColon(accession)
    IN  IF k = 0 THEN accession
        ELSE OboUrlPrefix \o SubSeq(accession, 1, k - 1) \o <<"_">>
                 \o SubSeq(accession, k + 1, Len(accession))

\* MzMLFile._urlize_accession(accession): split(":", 1) into two parts
\* raises ValueError, and the accession is returned as it is, when it holds
\* no ":".
UrlizeAccession(accession) ==
    LET k == FirstColon(accession)
        namespace == SubSeq(accession, 1, k - 1)
        id == SubSeq(accession, k + 1, Len(accession))
    IN  IF k = 0 THEN accession
        ELSE IF namespace \in {<<"M", "S">>, <<"U", "O">>}
        THEN OboUrlPrefix \o namespace \o <<"_">> \o id
        ELSE IF namespace = <<"I", "M", "S">>
        THEN ImsUrlPrefix \o namespace \o <<":">> \o id
        ELSE namespace \o <<":">> \o id

Has(rec, field) == field \in DOMAIN rec

\* The rewriting of the accession of a record and of its unit sub-record.
UrlizeRecord(r) ==
    LET r1 == IF Has(r, "accession")
              THEN [r EXCEPT !["accession"] = UrlizeAccession(@)] ELSE r
    IN  IF Has(r1, "unit") /\ Has(r1.unit, "accession")
        THEN [r1 EXCEPT !["unit"] =
                 [@ EXCEPT !["accession"] = UrlizeAccession(@)]]
        ELSE r1

\* The loop over an entry_list: it is left at the first entry that has
\* neither an accession nor a unit.
UrlizeEntryList(entries) ==
    LET stops == {k \in DOMAIN entries :
                     ~Has(entries[k], "accession") /\ ~Has(entries[k], "unit")}
        stop == IF stops = {} THEN Len(entries) + 1 ELSE SetMin(stops)
    IN  [k \in DOMAIN entries |->
            IF k < stop THEN UrlizeRecord(entries[k]) ELSE entries[k]]

\* MzMLFile._urlize_meta(meta)
UrlizeMeta(m) ==
    [key \in DOMAIN m |->
        LET nested == UrlizeRecord(m[key])
        IN  IF Has(nested, "entry_list")
            THEN [nested EXCEPT !["entry_list"] = UrlizeEntryList(@)]
            ELSE nested]

\* One more application of _urlize_accession to the accession
UrlizeAccessionAgain ==
    /\ urls # <<>> /\ Len(urls) < 3
    /\ urls' = Append(urls, UrlizeAccession(urls[Len(urls)]))
    /\ UNCHANGED <<doc, env, mode, pc, idx, pos, neg, timeRange, mzRange, meta,
                   warned, err, metas, onto, parameters, location, batch,
                   visits, dataFileContent, call>>

\* One more application of _urlize_meta to the dictionary
UrlizeMetaAgain ==
    /\ metas # <<>> /\ Len(metas) < 3
    /\ metas' = Append(metas, UrlizeMeta(metas[Len(metas)]))
    /\ UNCHANGED <<doc, env, mode, pc, idx, pos, neg, timeRange, mzRange, meta,
                   warned, err, urls, onto, parameters, location, batch,
                   visits, dataFileContent, call>>

\* ------------------------------------------------ the vocabulary

\* oboparse before any stanza is read: self.terms = {}
NoVocabulary == EmptyMeta

\* terms[id] of oboparse, {'p': [], 'c': []} when the id is new.
TermOf(terms, id) ==
    IF id \in DOMAIN terms THEN terms[id] ELSE [p |-> <<>>, c |-> <<>>]

\* The loop over the parents of one stanza: the term becomes a child of
\* each of them.
RECURSIVE AddChild(_, _, _)
AddChild(terms, parents, termID) ==
    IF parents = <<>> THEN terms
    ELSE LET parent == TermOf(terms, Head(parents))
         IN  AddChild(Put(terms, Head(parents),
                          [p |-> parent.p, c |-> Append(parent.c, termID)]),
                      Tail(parents), termID)

\* oboparse.__init__: the stanzas are read in order; a stanza without is_a
\* adds nothing, one with is_a sets the term's parents and appends the term
\* to the children of each parent.
RECURSIVE Oboparse(_, _)
Oboparse(terms, stanzas) ==
    IF stanzas = <<>> THEN terms
    ELSE LET term == Head(stanzas)
         IN  IF term.is_a = <<>> THEN Oboparse(terms, Tail(stanzas))
             ELSE Oboparse(
                      AddChild(Put(terms, term.id,
                                   [p |-> term.is_a, c |-> TermOf(terms, term.id).c]),
                               term.is_a, term.id),
                      Tail(stanzas))

\* oboparse.getDescendents(goid); Term.rchildren().id + [id] of the
\* vocabulary. The recursion is that of the code: it ends on acyclic graphs.
RECURSIVE GetDescendents(_, _)
GetDescendents(terms, goid) ==
    {goid} \cup
    (IF goid \in DOMAIN terms
     THEN UNION {GetDescendents(terms, child) : child \in Range(terms[goid].c)}
     ELSE {})

\* oboparse.getAncestors(goid)
RECURSIVE GetAncestors(_, _)
GetAncestors(terms, goid) ==
    {goid} \cup
    (IF goid \in DOMAIN terms
     THEN UNION {GetAncestors(terms, parent) : parent \in Range(terms[goid].p)}
     ELSE {})

\* oboparse(obo_file_path) on the file whose stanzas are args.
OboparseInit ==
    /\ pc = "oboparse"
    /\ onto' = Oboparse(NoVocabulary, args)
    /\ pc' = "done"
    /\ UNCHANGED <<doc, env, mode, idx, pos, neg, timeRange, mzRange, meta,
                   warned, err, args, result>>
    /\ UNCHANGED <<urls, metas, parameters, location, batch, visits,
                   dataFileContent>>

\* A membership test that accepts the direct children of the root only.
MatchesChildrenOnly(terms, root, accession) ==
    accession = root
    \/ (root \in DOMAIN terms /\ accession \in Range(terms[root].c))

\* element.attrib["accession"] in descendents[param_info.accession]
Matches(terms, root, accession) == accession \in GetDescendents(terms, root)

\* ------------------------------------------------ elements by position

\* An element is identified by the positions of its ancestors and itself
\* among their siblings; the root is <<>>.
RECURSIVE NodeAt(_, _)
NodeAt(e, ip) ==
    IF ip = <<>> THEN e ELSE NodeAt(e.children[Head(ip)], Tail(ip))

\* get_parent(element, tree)
Parent(ip) == SubSeq(ip, 1, Len(ip) - 1)

SelectPaths(d, context, step) ==
    IF step.tag = "."
    THEN context
    ELSE Concat([k \in DOMAIN context |->
            LET children == NodeAt(d, context[k]).children
                hits == SelectSeq([j \in DOMAIN children |-> j],
                                  LAMBDA j : StepMatches(children[j], step))
            IN  [n \in DOMAIN hits |-> Append(context[k], hits[n])]])

\* tree.iterfind(path), as the positions of the elements found
RECURSIVE IterFindPaths(_, _, _)
IterFindPaths(d, context, path) ==
    IF path = <<>> THEN context
    ELSE IterFindPaths(d, SelectPaths(d, context, Head(path)), Tail(path))

FindXPathPaths(d, e, query) == IterFindPaths(d, <<<<>>>>, Format(query, e))

\* ------------------------------------------------ the CV extractor

\* A display name is kept as its words; the dictionary key is the words
\* joined by single spaces.
RECURSIVE Key(_)
Key(words) ==
    IF words = <<>> THEN ""
    ELSE IF Len(words) = 1 THEN words[1]
    ELSE words[1] \o " " \o Key(Tail(words))

\* A prefix used as it is given.
KeepName(words) == words

\* re.sub(r" Name$", "", name)
StripName(words) ==
    IF Len(words) >= 2 /\ words[Len(words)] = "Name"
    THEN SubSeq(words, 1, Len(words) - 1)
    ELSE words

\* _CVParameter(accession, cv, name, plus1, value, software, merge)
CVParameter(accession, cv, name, plus1, value, software, merge) ==
    [accession |-> accession, cv |-> cv, name |-> name, plus1 |-> plus1,
     value |-> value, software |-> software, merge |-> merge]

XPATH_software_elements == <<R("root"), T("s:softwareList"), T("s:software")>>

Raise(m, exception) == [meta |-> m, err |-> exception]
Return(m) == [meta |-> m, err |-> "none"]

\* MzMLFile._extract_software(software_ref, name, meta): the result is the
\* dictionary and the exception raised, if any.
ExtractSoftware(d, e, software_ref, name, m) ==
    LET elements == FindXPath(d, e, XPATH_software_elements)
        noId == {k \in DOMAIN elements : ~Has(elements[k].attrib, "id")}
        hits == {k \in DOMAIN elements \ noId :
                    elements[k].attrib.id = software_ref}
        element == elements[SetMin(hits)]
        params == IterFind(<<element>>, Format(<<T(e["software_params"][1])>>, e))
        a == params[1].attrib
        key == Key(StripName(name))
        withSoftware ==
            IF params = <<>> THEN m
            ELSE Put(m, key \o " software",
                     [accession |-> a.accession, name |-> a.name,
                      ref |-> a[e["cvRef"][1]]])
        withVersion ==
            IF Has(element.attrib, "version")
            THEN Put(withSoftware, key \o " software version",
                     [value |-> element.attrib.version])
            ELSE withSoftware
    IN  IF noId # {} /\ (hits = {} \/ SetMin(noId) < SetMin(hits))
        THEN Raise(m, "KeyError")
        ELSE IF hits = {} THEN Return(m)
        ELSE IF e["software_params"] = None THEN Raise(m, "TypeError")
        ELSE IF params # <<>>
                /\ (~Has(a, "accession") \/ ~Has(a, "name")
                    \/ e["cvRef"] = None \/ ~Has(a, e["cvRef"][1]))
        THEN Raise(m, "KeyError")
        ELSE Return(withVersion)

\* The entry built for one matching element.
Param(e, a, param_info) ==
    LET unit == Has(a, "unitName") /\ Has(a, "unitCvRef") /\ Has(a, "unitAccession")
        fields == (IF param_info.cv THEN {"accession", "name", "ref"} ELSE {})
                  \cup (IF param_info.value THEN {"value"} ELSE {})
                  \cup (IF unit THEN {"unit"} ELSE {})
    IN  [f \in fields |->
            CASE f = "accession" -> a.accession
              [] f = "name" -> a.name
              [] f = "ref" -> a[e["cvRef"][1]]
              [] f = "value" -> a.value
              [] f = "unit" -> [name |-> a.unitName, ref |-> a.unitCvRef,
                                accession |-> a.unitAccession]]

\* Whether an equal entry keeps the new one out of the list.
IsDuplicateByAccession(param_info, param, entries) ==
    /\ param_info.merge
    /\ \E k \in DOMAIN entries :
           Has(entries[k], "accession") /\ Has(param, "accession")
           /\ entries[k].accession = param.accession

IsDuplicate(param_info, param, entries) ==
    param_info.merge /\ param \in Range(entries)

\* The body of the loop of _extract_cv_params for one descriptor, on the
\* element at position ip.
ExtractCvParam(d, e, terms, ip, param_info, st) ==
    LET a == NodeAt(d, ip).attrib
        m == st.meta
        key == Key(param_info.name)
        param == Param(e, a, param_info)
        existing == IF key \in DOMAIN m THEN m[key] ELSE [entry_list |-> <<>>]
        stored ==
            IF param_info.plus1
            THEN Put(m, key,
                     IF IsDuplicate(param_info, param, existing.entry_list)
                     THEN existing
                     ELSE [existing EXCEPT
                              !["entry_list"] = Append(@, param)])
            ELSE Put(m, key, param)
        parent == NodeAt(d, Parent(ip)).attrib
        grandparent == NodeAt(d, Parent(Parent(ip))).attrib
    IN  IF st.err # "none" \/ ~Matches(terms, param_info.accession, a.accession)
        THEN st
        ELSE IF param_info.cv
                /\ (~Has(a, "name") \/ e["cvRef"] = None \/ ~Has(a, e["cvRef"][1]))
        THEN Raise(m, "KeyError")
        ELSE IF param_info.value /\ ~Has(a, "value")
        THEN Raise(m, "KeyError")
        ELSE IF param_info.plus1 /\ ~Has(existing, "entry_list")
        THEN Raise(m, "KeyError")
        ELSE IF ~param_info.software THEN Return(stored)
        ELSE IF Has(parent, "softwareRef")
        THEN ExtractSoftware(d, e, parent.softwareRef, param_info.name, stored)
        ELSE IF Has(grandparent, "softwareRef")
        THEN ExtractSoftware(d, e, grandparent.softwareRef, param_info.name,
                             stored)
        ELSE Raise(stored, "KeyError")

\* MzMLFile._extract_cv_params(element, parameters, meta)
RECURSIVE ExtractCvParams(_, _, _, _, _, _)
ExtractCvParams(d, e, terms, ip, params, st) ==
    IF params = <<>> THEN st
    ELSE ExtractCvParams(d, e, terms, ip, Tail(params),
                         ExtractCvParam(d, e, terms, ip, Head(params), st))

\* One turn of the loop of _extract_assay_parameters over the elements of a
\* location: _extract_cv_params on the next element.
ExtractCvParamsNext ==
    /\ env # NotCached
    /\ pc = "cv_params" /\ err = "none"
    /\ idx <= Len(FindXPathPaths(doc, env, location))
    /\ LET st == ExtractCvParams(doc, env, onto,
                                 FindXPathPaths(doc, env, location)[idx],
                                 parameters, Return(meta))
       IN  /\ meta' = st.meta
           /\ err' = st.err
           /\ pc' = IF st.err = "none" THEN pc ELSE "raised"
    /\ idx' = idx + 1
    /\ UNCHANGED <<doc, env, mode, pos, neg, timeRange, mzRange, warned, others>>

\* The loop over the elements of the location has ended.
ExtractCvParamsDone ==
    /\ env # NotCached
    /\ pc = "cv_params" /\ err = "none"
    /\ idx > Len(FindXPathPaths(doc, env, location))
    /\ pc' = "done"
    /\ UNCHANGED <<doc, env, mode, idx, pos, neg, timeRange, mzRange, meta,
                   warned, err, others>>

\* ------------------------------------------------ the instrument

XPATH_ic_ref ==
    <<R("root"), RL("instrument"), R("instrument"),
      T("s:referenceableParamGroupRef")>>
XPATH_ic_elements ==
    <<R("root"), T("s:referenceableParamGroupList"),
      T("s:referenceableParamGroup")>>
XPATH_ic_nest == <<R("root"), RL("instrument"), R("instrument")>>
XPATH_ic_soft_ref ==
    <<R("root"), RL("instrument"), R("instrument"), R("software")>>

\* MzMLFile._find_instrument_config: the position of the element, or the
\* exception raised. In _referenceable_parameters the last group of an id
\* is the one the dictionary keeps.
FindInstrumentConfig(d, e) ==
    LET refs == FindXPathPaths(d, e, XPATH_ic_ref)
        groups == FindXPathPaths(d, e, XPATH_ic_elements)
        nest == FindXPathPaths(d, e, XPATH_ic_nest)
        ref == NodeAt(d, refs[1]).attrib
        named == {k \in DOMAIN groups :
                     NodeAt(d, groups[k]).attrib.id = ref.ref}
    IN  IF refs = <<>>
        THEN IF nest = <<>> THEN [ip |-> <<>>, err |-> "StopIteration"]
             ELSE [ip |-> nest[1], err |-> "none"]
        ELSE IF \E k \in DOMAIN groups : ~Has(NodeAt(d, groups[k]).attrib, "id")
        THEN [ip |-> <<>>, err |-> "KeyError"]
        ELSE IF ~Has(ref, "ref") \/ named = {}
        THEN [ip |-> <<>>, err |-> "KeyError"]
        ELSE [ip |-> groups[SetMax(named)], err |-> "none"]

\* The parameters _extract_instrument extracts.
InstrumentParameters ==
    <<CVParameter("MS:1000031", TRUE, <<"Instrument">>, FALSE, FALSE, FALSE,
                  FALSE),
      CVParameter("MS:1000529", TRUE, <<"Instrument", "serial", "number">>,
                  FALSE, TRUE, FALSE, FALSE)>>

\* for param in instrument.iterfind("s:cvParam"): _extract_cv_params(...)
RECURSIVE ExtractEach(_, _, _, _, _, _)
ExtractEach(d, e, terms, ips, params, st) ==
    IF ips = <<>> \/ st.err # "none" THEN st
    ELSE ExtractEach(d, e, terms, Tail(ips), params,
                     ExtractCvParams(d, e, terms, Head(ips), params, st))

\* Term.name of the vocabulary.
TermName(id) == "term " \o id

\* The namespaces and numbers accessions are written with.
Namespaces == {"MS", "UO", "IMS"}
Numbers ==
    {"0000001", "0000002", "0000003", "0000004", "0000005", "0000006",
     "1000031", "1000529"}

\* id.split(":")[0]
SplitFirst(id) ==
    IF \E ns \in Namespaces, n \in Numbers : id = ns \o ":" \o n
    THEN CHOOSE ns \in Namespaces : \E n \in Numbers : id = ns \o ":" \o n
    ELSE id

\* vocabulary[id].children.id
Children(terms, id) ==
    IF id \in DOMAIN terms THEN Range(terms[id].c) ELSE {}

\* term.rparents(): the strict ancestors of the term.
Rparents(terms, id) == GetAncestors(terms, id) \ {id}

\* A walk that looks at the direct parents of the term only.
ManufacturersAmongParents(terms, id) ==
    LET found == (IF id \in DOMAIN terms THEN Range(terms[id].p) ELSE {})
                 \cap Children(terms, "MS:1000031")
    IN  IF found = {} THEN {id} ELSE found

\* next((p for p in term.rparents() if p.id in manufacturers), term): the
\* terms the expression can yield, the order of rparents() being that of
\* the vocabulary library.
Manufacturers(terms, id) ==
    LET found == Rparents(terms, id) \cap Children(terms, "MS:1000031")
    IN  IF found = {} THEN {id} ELSE found

\* The same part, were the declared name of the instrument kept.
WithManufacturerDeclaredName(m, man) ==
    IF "Instrument" \notin DOMAIN m THEN m
    ELSE Put(m, "Instrument manufacturer",
             [accession |-> man, name |-> TermName(man),
              ref |-> SplitFirst(man)])

\* The part of _extract_instrument run when "Instrument" is in meta, man
\* being the manufacturer term found.
WithManufacturer(m, man) ==
    IF "Instrument" \notin DOMAIN m THEN m
    ELSE Put(Put(m, "Instrument",
                 [m["Instrument"] EXCEPT
                     !["name"] = TermName(m["Instrument"].accession)]),
             "Instrument manufacturer",
             [accession |-> man, name |-> TermName(man),
              ref |-> SplitFirst(man)])

\* The try block of _extract_instrument: the dictionary, the exception that
\* leaves the method, and whether the except clause has warned.
InstrumentSoftware(d, e, m) ==
    LET params == FindXPath(d, e, XPATH_ic_soft_ref)
        r == ExtractSoftware(d, e, params[1].attrib[e["softwareRef"][1]],
                             <<"Instrument">>, m)
        caught == [meta |-> m, err |-> "none", warn |-> TRUE]
    IN  IF params = <<>> THEN caught
        ELSE IF e["softwareRef"] = None
                \/ ~Has(params[1].attrib, e["softwareRef"][1])
        THEN caught
        ELSE IF r.err = "KeyError" THEN caught
        ELSE [meta |-> r.meta, err |-> r.err, warn |-> FALSE]

\* MzMLFile._extract_instrument(meta)
ExtractInstrument ==
    /\ env # NotCached
    /\ pc = "instrument" /\ err = "none"
    /\ LET config == FindInstrumentConfig(doc, env)
           st == ExtractEach(doc, env, onto,
                             IterFindPaths(doc, <<config.ip>>,
                                           Format(<<T("s:cvParam")>>, env)),
                             InstrumentParameters, Return(meta))
       IN  IF config.err # "none"
           THEN /\ err' = config.err
                /\ pc' = "raised"
                /\ UNCHANGED <<meta, warned>>
           ELSE IF st.err # "none"
           THEN /\ meta' = st.meta
                /\ err' = st.err
                /\ pc' = "raised"
                /\ UNCHANGED warned
           ELSE \E man \in (IF "Instrument" \in DOMAIN st.meta
                            THEN Manufacturers(onto, st.meta["Instrument"].accession)
                            ELSE {""}) :
                    LET soft == InstrumentSoftware(doc, env,
                                                   WithManufacturer(st.meta, man))
                    IN  /\ meta' = soft.meta
                        /\ err' = soft.err
                        /\ pc' = IF soft.err = "none" THEN "done" ELSE "raised"
                        /\ warned' =
                               warned
                               \cup (IF "Instrument" \in DOMAIN st.meta
                                        /\ st.meta["Instrument"].name
                                               # TermName(st.meta["Instrument"].accession)
                                     THEN {"The instrument name in the mzML file does not correspond to the instrument accession"}
                                     ELSE {})
                               \cup (IF soft.warn
                                     THEN {"Instrument does not have a software tag."}
                                     ELSE {})
    /\ UNCHANGED <<doc, env, mode, idx, pos, neg, timeRange, mzRange, others>>

\* ------------------------------------------------ DataFileContent

\* Term.rchildren().id: the descendants of a term, the term excluded.
RchildrenIds(terms, id) == GetDescendents(terms, id) \ {id}

\* The loop of DataFileContent.process_scan over the cvParams of one scan.
RECURSIVE DataFileContentLoop(_, _, _)
DataFileContentLoop(c, file_contents, cvs) ==
    IF cvs = <<>> THEN c
    ELSE LET cv == Head(cvs)
         IN  IF cv.attrib.accession \notin file_contents
             THEN DataFileContentLoop(c, file_contents, Tail(cvs))
             ELSE IF cv.attrib.accession \in c.memo
             THEN DataFileContentLoop(c, file_contents, Tail(cvs))
             ELSE DataFileContentLoop(
                      [entry_list |-> Append(c.entry_list,
                                             [name |-> cv.attrib.name,
                                              ref |-> cv.attrib.cvRef,
                                              accession |-> cv.attrib.accession]),
                       memo |-> c.memo \cup {cv.attrib.accession}],
                      file_contents, Tail(cvs))

\* DataFileContent.process_scan(elem, ns) on the next scan element
DataFileContentProcessScan ==
    /\ env # NotCached
    /\ mode = "collector" /\ pc = "data_file_content"
    /\ idx <= Len(ScanElements(doc, env))
    /\ dataFileContent' =
           DataFileContentLoop(dataFileContent, RchildrenIds(onto, "MS:1000524"),
                               IterFind(<<ScanElements(doc, env)[idx]>>,
                                        Format(SCAN_XPATHS_cv, env)))
    /\ idx' = idx + 1
    /\ visits' = Append(visits, idx)
    /\ UNCHANGED <<doc, env, mode, pc, meta, warned, err>>
    /\ UNCHANGED <<urls, metas, onto, parameters, location, batch, call>>
    /\ UnchangedCollectors

\* DataFileContent.populate_meta(meta), once the stream has ended
DataFileContentPopulateMeta ==
    /\ env # NotCached
    /\ mode = "collector" /\ pc = "data_file_content"
    /\ idx > Len(ScanElements(doc, env))
    /\ meta' = Put(meta, "Data file content",
                   [entry_list |-> dataFileContent.entry_list])
    /\ pc' = "done"
    /\ UNCHANGED <<doc, env, mode, idx, warned, err>>
    /\ UNCHANGED others
    /\ UnchangedCollectors

\* MzMLFile._extract_data_file_content(meta): unique_everseen binds memo and
\* reads seen, a name bound nowhere, so that the first cvParam it is given
\* raises NameError; without any cvParam the entry list is empty.
ExtractDataFileContent ==
    /\ env # NotCached
    /\ mode = "mzmlfile" /\ pc = "data_file_content"
    /\ IF FindXPath(doc, env, XPATH_sp_cv) = <<>>
       THEN /\ meta' = Put(meta, "Data file content", [entry_list |-> <<>>])
            /\ err' = err
       ELSE /\ meta' = meta
            /\ err' = "NameError"
    /\ visits' = visits \o ScanVisitsUntil(doc, env, XPATH_sp_cv,
                                            Range(FindXPath(doc, env, XPATH_sp_cv)))
    /\ pc' = "done"
    /\ UNCHANGED <<doc, env, mode, idx, warned>>
    /\ UnchangedButVisits
    /\ UnchangedCollectors

\* ------------------------------------------------ the scans

XPATH_scan_num == <<R("root"), T("s:run"), RL("spectrum")>>

\* The decimal numerals of the counts.
Digits == <<"0", "1", "2", "3", "4", "5", "6", "7", "8", "9">>

\* int(text), for a text that is a numeral
IntOf(text) == (CHOOSE k \in DOMAIN Digits : Digits[k] = text) - 1

\* MzMLFile._extract_scan_number(meta): next() of no element raises
\* StopIteration, a list without count raises KeyError.
ExtractScanNumber ==
    /\ env # NotCached
    /\ mode = "metadata" /\ pc = "scan_number"
    /\ LET scan_num == FindXPath(doc, env, XPATH_scan_num)
       IN  IF scan_num = <<>>
           THEN meta' = meta /\ err' = "StopIteration"
           ELSE IF ~Has(scan_num[1].attrib, "count")
           THEN meta' = meta /\ err' = "KeyError"
           ELSE /\ meta' = Put(meta, "Number of scans",
                               [value |-> IntOf(scan_num[1].attrib.count)])
                /\ err' = err
    /\ pc' = AfterSummary("scan_number", mode, err' # "none")
    /\ UNCHANGED <<doc, env, mode, idx, warned>>
    /\ UNCHANGED others
    /\ UnchangedCollectors

\* MzMLFile._scan_parameters(), for the locations whose elements are read
\* from the spectrum itself, from its scan list and from its scan: the
\* relative query of the location and its descriptors.
ScanParameters ==
    <<[location |-> "scan_sp",
       xpath |-> <<T("s:cvParam")>>,
       parameters |->
           <<CVParameter("MS:1000524", TRUE, <<"Data", "file", "content">>,
                         TRUE, FALSE, FALSE, TRUE),
             CVParameter("MS:1000796", FALSE, <<"Spectrum", "title">>,
                         TRUE, TRUE, FALSE, FALSE),
             CVParameter("MS:1000465", TRUE, <<"Polarity">>,
                         TRUE, FALSE, FALSE, FALSE),
             CVParameter("MS:1000511", FALSE, <<"MS", "Level">>,
                         TRUE, TRUE, FALSE, FALSE),
             CVParameter("MS:1000525", TRUE, <<"Spectrum", "representation">>,
                         TRUE, FALSE, FALSE, FALSE),
             CVParameter("MS:1000504", FALSE, <<"Base", "Peak", "m/z">>,
                         TRUE, TRUE, FALSE, FALSE),
             CVParameter("MS:1000505", FALSE, <<"Base", "Peak", "intensity">>,
                         TRUE, TRUE, FALSE, FALSE),
             CVParameter("MS:1000285", FALSE, <<"Total", "ion", "current">>,
                         TRUE, TRUE, FALSE, FALSE),
             CVParameter("MS:1000927", FALSE, <<"Ion", "injection", "time">>,
                         TRUE, TRUE, FALSE, FALSE),
             CVParameter("MS:1000512", FALSE, <<"Filter", "string">>,
                         TRUE, TRUE, FALSE, FALSE),
             CVParameter("MS:1000528", FALSE, <<"Lowest", "observed", "m/z">>,
                         TRUE, TRUE, FALSE, FALSE),
             CVParameter("MS:1000527", FALSE, <<"Highest", "observed", "m/z">>,
                         TRUE, TRUE, FALSE, FALSE)>>],
      [location |-> "scan_combination",
       xpath |-> <<R("scanList"), T("s:cvParam")>>,
       parameters |->
           <<CVParameter("MS:1000570", TRUE, <<"Spectrum", "combination">>,
                         TRUE, FALSE, FALSE, FALSE)>>],
      [location |-> "scan_configuration",
       xpath |-> <<R("scanList"), T("s:scan"), T("s:cvParam")>>,
       parameters |->
           <<CVParameter("MS:1000016", FALSE, <<"Scan", "start", "time">>,
                         TRUE, TRUE, FALSE, FALSE),
             CVParameter("MS:1000512", FALSE, <<"Filter", "string">>,
                         TRUE, TRUE, FALSE, FALSE),
             CVParameter("MS:1000616", FALSE,
                         <<"Preset", "scan", "configuration">>,
                         TRUE, TRUE, FALSE, FALSE),
             CVParameter("MS:1000927", FALSE, <<"Ion", "injection", "time">>,
                         TRUE, TRUE, FALSE, FALSE),
             CVParameter("MS:1000018", TRUE, <<"Scan", "direction">>,
                         TRUE, TRUE, FALSE, FALSE),
             CVParameter("MS:1000019", TRUE, <<"Scan", "law">>,
                         TRUE, TRUE, FALSE, FALSE)>>]>>

\* The calls of _extract_cv_params made by _extract_scan_parameters, in
\* order: for each spectrum, for each location, for each element found.
ScanParameterCalls(d, e) ==
    LET sps == FindXPathPaths(d, e, XPATH_sp)
        found(s, k) == IterFindPaths(d, <<sps[s]>>,
                                     Format(ScanParameters[k].xpath, e))
    IN  Concat([s \in DOMAIN sps |->
            Concat([k \in DOMAIN ScanParameters |->
                [j \in DOMAIN found(s, k) |->
                    [ip |-> found(s, k)[j],
                     parameters |-> ScanParameters[k].parameters]]])])

RECURSIVE ExtractCalls(_, _, _, _, _)
ExtractCalls(d, e, terms, calls, st) ==
    IF calls = <<>> \/ st.err # "none" THEN st
    ELSE ExtractCalls(d, e, terms, Tail(calls),
                      ExtractCvParams(d, e, terms, Head(calls).ip,
                                      Head(calls).parameters, st))

\* MzMLFile._extract_scan_parameters(meta)
ExtractScanParameters ==
    /\ env # NotCached
    /\ mode = "metadata" /\ pc = "scan_parameters"
    /\ LET st == ExtractCalls(doc, env, onto, ScanParameterCalls(doc, env),
                              Return(meta))
       IN  /\ meta' = st.meta
           /\ err' = st.err
    /\ visits' = visits \o ScanVisits(doc, env)
    /\ pc' = AfterSummary("scan_parameters", mode, err' # "none")
    /\ UNCHANGED <<doc, env, mode, idx, warned>>
    /\ UnchangedButVisits
    /\ UnchangedCollectors

\* ------------------------------------------------ the batch driver

\* The order of the characters of sample names (their code points).
CharOrder == <<"_", "a", "b">>

Ord(c) == CHOOSE k \in DOMAIN CharOrder : CharOrder[k] = c

\* s < t for Python strings
RECURSIVE StrLess(_, _)
StrLess(s1, s2) ==
    IF s2 = <<>> THEN FALSE
    ELSE IF s1 = <<>> THEN TRUE
    ELSE IF Head(s1) # Head(s2) THEN Ord(Head(s1)) < Ord(Head(s2))
    ELSE StrLess(Tail(s1), Tail(s2))

\* The inner loop of longest_substring over j, for one i: the match is kept
\* only when a mismatch follows it.
RECURSIVE LongestFrom(_, _, _, _, _, _)
LongestFrom(string1, string2, i, j, match, answer) ==
    IF j > Len(string2) THEN answer
    ELSE IF i + j - 1 <= Len(string1) /\ string1[i + j - 1] = string2[j]
    THEN LongestFrom(string1, string2, i, j + 1, Append(match, string2[j]),
                     answer)
    ELSE LongestFrom(string1, string2, i, j + 1, <<>>,
                     IF Len(match) > Len(answer) THEN match ELSE answer)

RECURSIVE LongestLoop(_, _, _, _)
LongestLoop(string1, string2, i, answer) ==
    IF i > Len(string1) THEN answer
    ELSE LongestLoop(string1, string2, i + 1,
                     LongestFrom(string1, string2, i, 1, <<>>, answer))

\* utils.longest_substring(string1, string2)
LongestSubstring(string1, string2) == LongestLoop(string1, string2, 1, <<>>)

\* A call of longest_substring on the two strings of args.
CallLongestSubstring ==
    /\ pc = "longest_substring"
    /\ result' = Some(LongestSubstring(args[1], args[2]))
    /\ pc' = "done"
    /\ UNCHANGED <<doc, env, mode, idx, pos, neg, timeRange, mzRange, meta,
                   warned, err, args>>
    /\ UNCHANGED <<urls, metas, onto, parameters, location, batch, visits,
                   dataFileContent>>

\* str.strip('-_;:() \n\t')
RECURSIVE Strip(_)
Strip(s) ==
    IF s = <<>> THEN s
    ELSE IF Head(s) \in {"-", "_", ";", ":", "(", ")", " "} THEN Strip(Tail(s))
    ELSE IF s[Len(s)] \in {"-", "_", ";", ":", "(", ")", " "}
    THEN Strip(SubSeq(s, 1, Len(s) - 1))
    ELSE s

\* list.sort(key=lambda x: x['Sample Name']['value']): a stable sort.
RECURSIVE SortByName(_)
SortByName(l) ==
    IF l = <<>> THEN l
    ELSE LET least == CHOOSE k \in DOMAIN l :
                          /\ \A j \in DOMAIN l :
                                 ~StrLess(l[j]["Sample Name"].value,
                                          l[k]["Sample Name"].value)
                          /\ \A j \in 1..(k - 1) :
                                 StrLess(l[k]["Sample Name"].value,
                                         l[j]["Sample Name"].value)
         IN  <<l[least]>>
             \o SortByName(SubSeq(l, 1, least - 1) \o SubSeq(l, least + 1, Len(l)))

\* The body of the loop of merge_spectra over zip(profiles, centroid).
MergePair(p, c) ==
    LET name == Strip(LongestSubstring(p["Sample Name"].value,
                                       c["Sample Name"].value))
        extend(key) == [entry_list |-> p[key].entry_list \o c[key].entry_list]
    IN  [key \in DOMAIN p |->
            CASE key = "Derived Spectral Data File" -> extend(key)
              [] key = "Raw Spectral Data File" -> extend(key)
              [] key = "Spectrum representation" -> extend(key)
              [] key = "Sample Name" -> [value |-> name]
              [] key = "MS Assay Name" -> [value |-> name]
              [] OTHER -> p[key]]

\* merge_spectra(metalist)
MergeSpectra(l) ==
    LET named(m, name) == m["Spectrum representation"].entry_list[1].name = name
        profiles == SortByName(SelectSeq(l, LAMBDA m : named(m, "profile spectrum")))
        centroid == SortByName(SelectSeq(l, LAMBDA m : named(m, "centroid spectrum")))
    IN  IF Len(profiles) # Len(centroid) THEN l
        ELSE [k \in DOMAIN profiles |-> MergePair(profiles[k], centroid[k])]

\* What the rest of the module does not touch while a batch runs.
UnchangedByBatch ==
    UNCHANGED <<doc, env, mode, pos, neg, timeRange, mzRange, meta, urls, metas,
                onto, parameters, location, visits, dataFileContent, call,
                mzml_files, multip, merging>>

\* full_parse, no file found: a warning, nothing is written.
NoFiles ==
    /\ pc = "parse" /\ mzml_files = <<>>
    /\ warned' = warned \cup {"No files were found in directory."}
    /\ pc' = "done"
    /\ UNCHANGED <<idx, err, metalist, ext, written>>
    /\ UnchangedByBatch

\* full_parse, one turn of the loop over the files without a pool:
\* metalist.append(parser(i, ont).meta). An exception raised by the parser
\* leaves the loop and full_parse.
ParseFile ==
    /\ pc = "parse" /\ ~multip
    /\ idx <= Len(mzml_files)
    /\ ext' = Some(mzml_files[idx].ext)
    /\ IF mzml_files[idx].raises
       THEN /\ err' = "Exception"
            /\ pc' = "raised"
            /\ UNCHANGED <<idx, metalist>>
       ELSE /\ metalist' = Append(metalist, mzml_files[idx].meta)
            /\ idx' = idx + 1
            /\ UNCHANGED <<err, pc>>
    /\ UNCHANGED <<warned, written>>
    /\ UnchangedByBatch

\* full_parse with a pool: metalist = pool.map(_multiparse, mzml_files).
\* map raises in the caller what a worker raised; ext is not assigned.
\* A worker returns the dictionary of its file (_multiparse reads it through
\* the attribute meta_isa of the parser).
PoolMap ==
    /\ pc = "parse" /\ multip
    /\ mzml_files # <<>> /\ idx = 1
    /\ IF \E k \in DOMAIN mzml_files : mzml_files[k].raises
       THEN /\ err' = "Exception"
            /\ pc' = "raised"
            /\ UNCHANGED <<idx, metalist>>
       ELSE /\ metalist' = [k \in DOMAIN mzml_files |-> mzml_files[k].meta]
            /\ idx' = Len(mzml_files) + 1
            /\ UNCHANGED <<err, pc>>
    /\ UNCHANGED <<warned, written, ext>>
    /\ UnchangedByBatch

\* full_parse after the files are parsed: the optional grouping, then
\* ISA_Tab(...).write(metalist, ext, split). Reading ext while it is
\* unbound raises UnboundLocalError.
UpdateIsaTab ==
    /\ pc = "parse"
    /\ mzml_files # <<>> /\ idx > Len(mzml_files)
    /\ LET merged == IF merging /\ ext = Some("imzML")
                     THEN MergeSpectra(metalist) ELSE metalist
       IN  IF ext = None /\ (merging \/ merged # <<>>)
           THEN /\ err' = "UnboundLocalError"
                /\ pc' = "raised"
                /\ UNCHANGED <<metalist, written>>
           ELSE /\ metalist' = merged
                /\ written' = IF merged # <<>>
                              THEN Some([metalist |-> merged, ext |-> ext[1]])
                              ELSE written
                /\ pc' = "done"
                /\ UNCHANGED err
    /\ UNCHANGED <<idx, warned, ext>>
    /\ UnchangedByBatch

\* ------------------------------------------------ the assay table

\* The elements of a set of numbers in increasing order.
RECURSIVE Sorted(_)
Sorted(S) == IF S = {} THEN <<>> ELSE <<SetMin(S)>> \o Sorted(S \ {SetMin(S)})

\* The header line and the standard row of the default assay file: the
\* sample, the mass spectrometry protocol with its parameter columns, the
\* data transformation with the derived file, the identification protocol.
AssayHeaders ==
    <<"Sample Name", "Protocol REF",
      "Parameter Value[Instrument]", "Term Source REF", "Term Accession Number",
      "Parameter Value[Data file content]", "Term Source REF",
      "Term Accession Number",
      "Parameter Value[Data file content]", "Term Source REF",
      "Term Accession Number",
      "Parameter Value[Number of scans]",
      "Protocol REF", "Data Transformation Name", "Derived Spectral Data File",
      "Protocol REF">>

AssayStandardRow ==
    [i \in DOMAIN AssayHeaders |->
        CASE i = 2 -> "Mass spectrometry"
          [] i = 13 -> "Data transformation"
          [] i = 16 -> "Metabolite identification"
          [] OTHER -> ""]

\* list.index(x): the first position of x, 0 when x is not in the list.
IndexOf(l, x) ==
    IF \E i \in DOMAIN l : l[i] = x
    THEN SetMin({i \in DOMAIN l : l[i] = x}) ELSE 0

\* ISA_Tab.update_row(main, meta_val) on the row new_mass_row: the name,
\* then 'MS' and the accession, then the value, each where the one before
\* it stopped.
UpdateRow(row, main, meta_val) ==
    LET named == Has(meta_val, "name")
        cited == Has(meta_val, "accession")
        m1 == IF named THEN main + 1 ELSE main
        m2 == IF cited THEN m1 + 2 ELSE m1
        r1 == IF named THEN [row EXCEPT ![main] = meta_val.name] ELSE row
        r2 == IF cited
              THEN [r1 EXCEPT ![m1] = "MS", ![m1 + 1] = meta_val.accession]
              ELSE r1
    IN  IF Has(meta_val, "value") THEN [r2 EXCEPT ![m2] = meta_val.value]
        ELSE r2

\* The loop over the entries of an entry list: entry k goes to the k-th
\* column named after the key, the entries beyond the columns are skipped.
RECURSIVE UpdateEntries(_, _, _, _)
UpdateEntries(row, indices, entries, k) ==
    IF k > Len(entries) THEN row
    ELSE UpdateEntries(IF k <= Len(indices)
                       THEN UpdateRow(row, indices[k], entries[k]) ELSE row,
                       indices, entries, k + 1)

\* The body of the loop of create_assay over the items of one dictionary,
\* st being pre_row and new_mass_row.
AssayItem(st, mass_headers, key, value) ==
    LET pre == IF key = "Sample Name"
               THEN [st.pre EXCEPT ![IndexOf(AssayHeaders, "Sample Name")] =
                                        value.value]
               ELSE st.pre
        indices == Sorted({i \in DOMAIN mass_headers : mass_headers[i] = key})
        main == IndexOf(mass_headers, key)
    IN  [pre |-> pre,
         mass |-> IF Has(value, "entry_list")
                  THEN UpdateEntries(st.mass, indices, value.entry_list, 1)
                  ELSE IF main = 0 THEN st.mass
                  ELSE UpdateRow(st.mass, main, value)]

RECURSIVE AssayItems(_, _, _, _)
AssayItems(st, mass_headers, file_meta, keys) ==
    IF keys = <<>> THEN st
    ELSE AssayItems(AssayItem(st, mass_headers, Head(keys),
                              file_meta[Head(keys)]),
                    mass_headers, file_meta, Tail(keys))

\* The keys of a dictionary in the order the parser wrote them.
AssayKeys ==
    <<"Sample Name", "Parameter Value[Instrument]",
      "Parameter Value[Data file content]", "Parameter Value[Number of scans]">>

\* The loop of create_assay over metalist: pre_row and new_mass_row are
\* created before the loop and updated by every dictionary; each turn
\* appends pre_row + new_mass_row + post_row to full_row.
RECURSIVE AssayRows(_, _, _, _, _)
AssayRows(st, mass_headers, post_row, metalist_, full_row) ==
    IF metalist_ = <<>> THEN full_row
    ELSE LET file_meta == Head(metalist_)
             next == AssayItems(st, mass_headers, file_meta,
                                SelectSeq(AssayKeys,
                                          LAMBDA key : key \in DOMAIN file_meta))
         IN  AssayRows(next, mass_headers, post_row, Tail(metalist_),
                       Append(full_row, next.pre \o next.mass \o post_row))

\* The elements of l at the positions outside delete_cols.
Without(l, delete_cols) ==
    LET keep == Sorted(DOMAIN l \ delete_cols)
    IN  [k \in DOMAIN keep |-> l[keep[k]]]

\* ISA_Tab.remove_blank_columns(start, end, full_row, headers_l), start and
\* end being the positions of the two protocol columns: the columns from
\* start to three before end that are empty in every row are deleted.
RemoveBlankColumns(start, end, full_row, headers_l) ==
    LET delete_cols == {i \in start..(end - 4) :
                           \A r \in DOMAIN full_row : full_row[r][i] = ""}
    IN  [headers |-> Without(headers_l, delete_cols),
         rows |-> [r \in DOMAIN full_row |-> Without(full_row[r], delete_cols)]]

\* ISA_Tab.create_assay(metalist): the header line and the rows written.
CreateAssayOf(metalist_) ==
    LET mass_protocol_idx == IndexOf(AssayStandardRow, "Mass spectrometry")
        mass_end_idx == IndexOf(AssayStandardRow, "Metabolite identification")
        mass_headers == SubSeq(AssayHeaders, mass_protocol_idx + 1,
                               mass_end_idx - 1)
        pre_row == SubSeq(AssayStandardRow, 1, mass_protocol_idx)
        post_row == SubSeq(AssayStandardRow, mass_end_idx, Len(AssayStandardRow))
        new_mass_row == [i \in DOMAIN mass_headers |-> ""]
        full_row == AssayRows([pre |-> pre_row, mass |-> new_mass_row],
                              mass_headers, post_row, metalist_, <<>>)
        table == RemoveBlankColumns(mass_protocol_idx, mass_end_idx, full_row,
                                    AssayHeaders)
        data_tran_idx == IndexOf(table.headers, "Derived Spectral Data File") - 2
    IN  [headers |-> table.headers,
         rows |-> [r \in DOMAIN table.rows |->
                      [table.rows[r] EXCEPT ![data_tran_idx] =
                                                "Data transformation"]]]

\* A call of ISA_Tab.create_assay on the dictionaries of args.
CreateAssay ==
    /\ pc = "create_assay"
    /\ result' = Some(CreateAssayOf(args))
    /\ pc' = "done"
    /\ UNCHANGED <<doc, env, mode, idx, pos, neg, timeRange, mzRange, meta,
                   warned, err, args>>
    /\ UNCHANGED <<urls, metas, onto, parameters, location, batch, visits,
                   dataFileContent>>

\* ------------------------------------------------ documents

CvParam(accession) ==
    Elem("s:cvParam", [accession |-> accession, cvRef |-> "MS"], <<>>)

CvValue(accession, value) ==
    Elem("s:cvParam",
         [accession |-> accession, cvRef |-> "MS", value |-> value], <<>>)

CvValueUnit(accession, value, unitName, unitAccession) ==
    Elem("s:cvParam",
         [accession |-> accession, cvRef |-> "MS", value |-> value,
          unitName |-> unitName, unitAccession |-> unitAccession,
          unitCvRef |-> "UO"], <<>>)

\* <spectrum> with its own cvParams, the cvParams of its scan and those of
\* the scan's window, the window list being tagged window + "List".
Spectrum(spCv, scanCv, window, windowCv) ==
    Elem("s:spectrum", NoAttrib,
         spCv \o
         <<Elem("s:scanList", NoAttrib,
                <<Elem("s:scan", NoAttrib,
                       scanCv \o
                       <<Elem(window \o "List", NoAttrib,
                              <<Elem(window, NoAttrib, windowCv)>>)>>)>>)>>)

\* <mzML><run><spectrumList> spectra </spectrumList></run></mzML>
MzML(spectra) ==
    Elem("s:mzML", NoAttrib,
         <<Elem("s:run", NoAttrib,
                <<Elem("s:spectrumList", NoAttrib, spectra)>>)>>)

PolarityAccessions == {"MS:1000130", "MS:1000129", "MS:1000511"}

\* Documents whose spectra carry up to two cvParams of their own.
PolarityDocs ==
    {MzML([k \in DOMAIN cvs |->
              Spectrum([j \in DOMAIN cvs[k] |-> CvParam(cvs[k][j])],
                       <<>>, "s:scanWindow", <<>>)]) :
        cvs \in SeqsUpTo(SeqsUpTo(PolarityAccessions, 2), MaxScans)}

\* Scan start times, in units of 0.00005: they include ties of both
\* roundings.
TimeValues == {1, 3, 10, 30}

TimeParams ==
    {CvValue("MS:1000016", t) : t \in TimeValues}
    \cup {CvValueUnit("MS:1000016", t, "minute", "UO:0000031") : t \in TimeValues}
    \cup {CvParam("MS:1000512")}

\* Documents whose scans carry at most one start time each; the spectra
\* carry a cvParam of their own (with its cvRef attribute) or none.
TimeDocs ==
    {MzML([k \in DOMAIN cvs |->
              Spectrum(spCv, cvs[k], "s:scanWindow", <<>>)]) :
        cvs \in SeqsUpTo(SeqsUpTo(TimeParams, 1), MaxScans),
        spCv \in {<<>>, <<CvParam("MS:1000511")>>}}

\* Scan window limits, in halves of an m/z unit.
MzValues == {3, 8, 11}

MzParams ==
    {CvValue("MS:1000501", v) : v \in MzValues}
    \cup {CvValue("MS:1000500", v) : v \in MzValues}

\* Documents whose scan windows carry up to two limits, in either order.
MzDocs ==
    {MzML([k \in DOMAIN cvs |->
              Spectrum(<<>>, <<>>, "s:scanWindow", cvs[k])]) :
        cvs \in SeqsUpTo(SeqsUpTo(MzParams, 2), MaxScans)}

\* A cvParam with the attributes a CV term carries.
CvTerm(accession, value) ==
    Elem("s:cvParam",
         [accession |-> accession, name |-> "term " \o accession,
          cvRef |-> "MS", value |-> value], <<>>)

\* An optional attribute.
Attr(k, v) == IF v = None THEN NoAttrib ELSE [x \in {k} |-> v[1]]

\* <software id= version=> with its cvParam.
Software(id, version, cv) ==
    Elem("s:software",
         [x \in {"id"} \cup DOMAIN Attr("version", version) |->
             IF x = "id" THEN id ELSE version[1]],
         cv)

\* A document with a referenceable parameter group, a software list and one
\* processing method, whose cvParams are cvs.
CvDoc(group, software, dataProcessingRef, processingMethodRef, cvs) ==
    Elem("s:mzML", NoAttrib,
         <<Elem("s:referenceableParamGroupList", NoAttrib,
                <<Elem("s:referenceableParamGroup", NoAttrib, group)>>),
           Elem("s:softwareList", NoAttrib, software),
           Elem("s:dataProcessingList", NoAttrib,
                <<Elem("s:dataProcessing",
                       Attr("softwareRef", dataProcessingRef),
                       <<Elem("s:processingMethod",
                              Attr("softwareRef", processingMethodRef),
                              cvs)>>)>>)>>)

XPATH_data_processing ==
    <<R("root"), T("s:dataProcessingList"), T("s:dataProcessing"),
      T("s:processingMethod"), T("s:cvParam")>>

AllTermIds ==
    <<"MS:0000001", "MS:0000002", "MS:0000003", "MS:0000004", "MS:0000005",
      "MS:0000006">>

TermIds == SubSeq(AllTermIds, 1, MaxTerms)

\* The [Term] stanzas of a vocabulary file over the terms ids, the is_a
\* lines being the pairs <<i, j>> of edges: term i names term j.
Stanzas(ids, edges) ==
    [i \in DOMAIN ids |->
        LET parents == Sorted({j \in DOMAIN ids : <<i, j>> \in edges})
        IN  [id |-> ids[i], is_a |-> [k \in DOMAIN parents |-> ids[parents[k]]]]]

\* Each term names some of the terms before it.
Edges(ids) == {<<i, j>> : i \in DOMAIN ids, j \in DOMAIN ids} \cap
              {p \in (1..Len(ids)) \X (1..Len(ids)) : p[2] < p[1]}

Chain(ids) == {p \in Edges(ids) : p[1] = p[2] + 1}

\* The acyclic vocabularies over the terms.
Vocabularies ==
    {Oboparse(NoVocabulary, Stanzas(TermIds, edges)) :
        edges \in SUBSET Edges(TermIds)}

\* The vocabulary in which each term is the child of the one before it.
ChainVocabulary == Oboparse(NoVocabulary, Stanzas(TermIds, Chain(TermIds)))

\* The instrument model root and the terms that may descend from it.
InstrumentTermIds == <<"MS:1000031">> \o TermIds

InstrumentVocabularies ==
    {Oboparse(NoVocabulary, Stanzas(InstrumentTermIds, edges)) :
        edges \in SUBSET Edges(InstrumentTermIds)}

InstrumentChain ==
    Oboparse(NoVocabulary, Stanzas(InstrumentTermIds, Chain(InstrumentTermIds)))

\* <instrumentConfiguration> naming a parameter group, or carrying the
\* cvParams itself, with its software reference.
InstrumentConfiguration(byRef, cvs, softwareRef) ==
    Elem("s:instrumentConfiguration", NoAttrib,
         (IF byRef
          THEN <<Elem("s:referenceableParamGroupRef", [ref |-> "ic"], <<>>)>>
          ELSE cvs)
         \o softwareRef)

\* A document with its instrument configurations, the parameter group they
\* may name, a software list and one spectrum.
InstrumentDoc(byRef, cvs, configurations, software) ==
    Elem("s:mzML", NoAttrib,
         <<Elem("s:referenceableParamGroupList", NoAttrib,
                IF byRef
                THEN <<Elem("s:referenceableParamGroup", [id |-> "ic"], cvs)>>
                ELSE <<>>),
           Elem("s:instrumentConfigurationList", NoAttrib, configurations),
           Elem("s:softwareList", NoAttrib, software),
           Elem("s:run", NoAttrib,
                <<Elem("s:spectrumList", NoAttrib,
                       <<Elem("s:spectrum", NoAttrib,
                              <<CvParam("MS:1000511")>>)>>)>>)>>)

SoftwareRef == <<Elem("s:softwareRef", [ref |-> "sw"], <<>>)>>

\* The cvParam of an instrument model, named as the vocabulary names it or
\* otherwise.
InstrumentTerm(accession, named) ==
    Elem("s:cvParam",
         [accession |-> accession, cvRef |-> "MS",
          name |-> IF named THEN TermName(accession) ELSE "other"], <<>>)

WithGroup == <<CvParam("MS:1000511")>>

OneSoftware == <<Software("sw", Some("1.0"), <<CvTerm("MS:1000615", "")>>)>>

\* The content of <run>: a list of spectra or of chromatograms, whose one
\* element has a scan list under the tag given (or none), whose scan has a
\* window list under the tag given (or none).
RunList(kind, scanList, window) ==
    Elem(kind \o "List", NoAttrib,
         <<Elem(kind, NoAttrib,
                IF scanList = None THEN <<>>
                ELSE <<Elem(scanList[1], NoAttrib,
                            <<Elem("s:scan", NoAttrib,
                                   IF window = None THEN <<>>
                                   ELSE <<Elem(window[1] \o "List", NoAttrib,
                                               <<Elem(window[1], NoAttrib,
                                                      <<>>)>>)>>)>>)>>)>>)

RunLists ==
    {RunList(kind, scanList, window) :
        kind \in {"s:spectrum", "s:chromatogram"},
        scanList \in {None, Some("s:scanList"), Some("s:spectrumDescription")},
        window \in {None, Some("s:scanWindow"), Some("s:selectionWindow")}}

\* <indexedmzML><mzML> ... </mzML></indexedmzML>
Indexed(mzML) == Elem("s:indexedmzML", NoAttrib, <<mzML>>)

\* Documents that differ in the alternatives of root, spectrum, scanList and
\* scanWindow they carry, none, one or both.
SpectralDocs ==
    LET plain == {Elem("s:mzML", NoAttrib, <<Elem("s:run", NoAttrib, lists)>>) :
                     lists \in SeqsUpTo(RunLists, 2)}
    IN  plain \cup {Indexed(d) : d \in plain}

\* An element carrying the attributes of the set names.
WithAttributes(tag, names) == Elem(tag, [k \in names |-> "x"], <<>>)

InstrumentLists ==
    {Elem(kind \o "List", NoAttrib, <<Elem(kind, NoAttrib, refs)>>) :
        kind \in {"s:instrumentConfiguration", "s:instrument"},
        refs \in {<<>>,
                  <<WithAttributes("s:softwareRef", {"ref"})>>,
                  <<WithAttributes("s:softwareRef", {})>>,
                  <<WithAttributes("s:instrumentSoftwareRef", {"ref"})>>}}

\* Documents that differ in the alternatives of instrument, software,
\* software_params and softwareRef they carry.
InstrumentEnvDocs ==
    {Elem("s:mzML", NoAttrib,
          lists \o <<Elem("s:softwareList", NoAttrib,
                          <<Elem("s:software", NoAttrib, params)>>)>>) :
        lists \in SeqsUpTo(InstrumentLists, 2),
        params \in SeqsUpTo({Elem("s:softwareParam", NoAttrib, <<>>),
                             Elem("s:cvParam", NoAttrib, <<>>)}, 2)}

\* Documents that differ in the attributes of the source file, of the
\* cvParams and of the cv elements.
AttributeDocs ==
    {Elem("s:mzML", NoAttrib,
          <<Elem("s:fileDescription", NoAttrib,
                 <<Elem("s:sourceFileList", NoAttrib, sourceFiles)>>),
            Elem("s:referenceableParamGroupList", NoAttrib,
                 <<Elem("s:referenceableParamGroup", NoAttrib, grouped)>>),
            Elem("s:cvList", NoAttrib, cvs),
            Elem("s:run", NoAttrib,
                 <<Elem("s:spectrumList", NoAttrib,
                        <<Elem("s:spectrum", NoAttrib, own)>>)>>)>>) :
        sourceFiles \in {<<>>} \cup
            {<<WithAttributes("s:sourceFile", names)>> :
                names \in SUBSET {"name", "filename", "sourceFileName"}},
        grouped \in {<<>>, <<WithAttributes("s:cvParam", {"cvLabel"})>>,
                     <<WithAttributes("s:cvParam", {"cvRef"})>>,
                     <<WithAttributes("s:cvParam", {})>>},
        cvs \in {<<>>, <<WithAttributes("s:cv", {"id"})>>,
                 <<WithAttributes("s:cv", {"cvLabel"})>>,
                 <<WithAttributes("s:cv", {"id", "cvLabel"})>>},
        own \in {<<>>, <<WithAttributes("s:cvParam", {"cvRef"})>>}}

\* The limits of the scan windows of the twin documents: the lower limit
\* with its unit or without.
TwinParams ==
    {CvValue("MS:1000501", 3),
     CvValueUnit("MS:1000501", 8, "m/z", "MS:1000040"),
     CvValue("MS:1000500", 11)}

\* Documents whose window lists are tagged one way or the other.
TwinDocs ==
    {MzML([k \in DOMAIN cvs |-> Spectrum(<<>>, <<>>, window, cvs[k])]) :
        cvs \in SeqsUpTo(SeqsUpTo(TwinParams, 2), MaxScans),
        window \in {"s:scanWindow", "s:selectionWindow"}}

\* ------------------------------------------------ specifications

\* No batch is running.
NoBatch ==
    /\ mzml_files = <<>>
    /\ multip = FALSE
    /\ merging = FALSE
    /\ metalist = <<>>
    /\ ext = None
    /\ written = None

NoCall ==
    /\ args = <<>>
    /\ result = None

InitParser ==
    /\ visits = <<>>
    /\ dataFileContent = [entry_list |-> <<>>, memo |-> {}]
    /\ env = NotCached
    /\ idx = 1
    /\ pos = FALSE /\ neg = FALSE
    /\ timeRange = [minrt |-> PosInf, maxrt |-> NegInf, unit |-> None]
    /\ mzRange = [unit |-> None, minmz |-> PosInf, maxmz |-> NegInf]
    /\ meta = EmptyMeta
    /\ warned = {}
    /\ err = "none"

InitOneFile ==
    /\ NoCall
    /\ InitParser

InitCommon ==
    /\ NoBatch
    /\ InitOneFile

InitScans ==
    /\ InitCommon
    /\ urls = <<>>
    /\ metas = <<>>
    /\ onto = NoVocabulary
    /\ parameters = <<>>
    /\ location = <<>>

InitPolarity ==
    /\ doc \in PolarityDocs
    /\ mode \in {"collector", "mzmlfile"}
    /\ pc = "polarity"
    /\ InitScans

NextPolarity ==
    \/ BuildEnvironment
    \/ PolarityProcessScan
    \/ PolarityPopulateMeta
    \/ ExtractPolarity

SpecPolarity == InitPolarity /\ [][NextPolarity]_vars

InitTimeRange ==
    /\ doc \in TimeDocs
    /\ mode \in {"collector", "mzmlfile"}
    /\ pc = "timerange"
    /\ InitScans

NextTimeRange ==
    \/ BuildEnvironment
    \/ TimeRangeProcessScan
    \/ TimeRangePopulateMeta
    \/ ExtractTimerange

SpecTimeRange == InitTimeRange /\ [][NextTimeRange]_vars

InitMzRange ==
    /\ doc \in MzDocs
    /\ mode \in {"collector", "mzmlfile"}
    /\ pc = "mzrange"
    /\ InitScans

NextMzRange ==
    \/ BuildEnvironment
    \/ MzRangeProcessScan
    \/ MzRangePopulateMeta
    \/ ExtractMzrange

SpecMzRange == InitMzRange /\ [][NextMzRange]_vars

\* The characters accessions are drawn from: those of the three known
\* namespaces, the separator and a digit.
AccessionChars == {"M", "S", "U", "O", "I", ":", "1"}

BareAccessions == SeqsUpTo(AccessionChars, MaxAccessionLen)

\* Bare accessions and already rewritten ones.
AccessionStrings ==
    BareAccessions \cup {UrlizeAccession(a) : a \in BareAccessions}

MS1 == <<"M", "S", ":", "1">>
IMS1 == <<"I", "M", "S", ":", "1">>
UO1 == <<"U", "O", ":", "1">>

\* The entries _extract_cv_params builds: accession, name and ref when the
\* descriptor has a CV term, a value when it has one, a unit when the
\* element carries one.
WithCv(r, cv) ==
    IF cv = None THEN r
    ELSE [k \in DOMAIN r \cup {"accession", "name", "ref"} |->
             IF k = "accession" THEN cv[1]
             ELSE IF k \in {"name", "ref"} THEN "x" ELSE r[k]]

WithUnit(r, unit) ==
    IF unit = None THEN r
    ELSE [k \in DOMAIN r \cup {"unit"} |->
             IF k = "unit" THEN [name |-> "x", ref |-> "UO", accession |-> unit[1]]
             ELSE r[k]]

\* Every descriptor of the tables has a CV term or a value.
EntryShapes ==
    {WithUnit(WithCv(base, cv), unit) :
        base \in {EmptyMeta, [value |-> "v"]},
        cv \in {None, Some(MS1), Some(IMS1)},
        unit \in {None, Some(UO1)}}
    \ {EmptyMeta, WithUnit(EmptyMeta, Some(UO1))}

\* Dictionaries with a single-valued field or a repeatable one.
UrlMetas ==
    {[key \in {"field"} |-> e] : e \in EntryShapes}
    \cup {[key \in {"field"} |-> [entry_list |-> l]] :
             l \in SeqsUpTo(EntryShapes, MaxEntries)}

InitUrlize ==
    /\ doc = MzML(<<>>)
    /\ mode = "mzmlfile"
    /\ pc = "urlize"
    /\ InitCommon
    /\ onto = NoVocabulary
    /\ parameters = <<>>
    /\ location = <<>>
    /\ \/ urls \in {<<a>> : a \in AccessionStrings} /\ metas = <<>>
       \/ urls = <<>> /\ metas \in {<<m>> : m \in UrlMetas}

NextUrlize ==
    \/ UrlizeAccessionAgain
    \/ UrlizeMetaAgain

SpecUrlize == InitUrlize /\ [][NextUrlize]_vars

SoftwareLists ==
    {<<>>, OneSoftware,
     <<Software("sw", None, <<CvTerm("MS:1000615", "")>>)>>,
     <<Software("sw", Some(""), <<CvTerm("MS:1000615", "")>>)>>,
     <<Software("sw", Some("1.0"), <<>>)>>}

\* One element, any vocabulary, two descriptors rooted anywhere.
InitCvMembership ==
    /\ onto \in Vocabularies
    /\ \E r1 \in Range(TermIds), r2 \in Range(TermIds), plus1 \in BOOLEAN :
           parameters =
               <<CVParameter(r1, TRUE, <<"First">>, plus1, FALSE, FALSE, FALSE),
                 CVParameter(r2, TRUE, <<"Second">>, TRUE, FALSE, FALSE, FALSE)>>
    /\ \E t \in Range(TermIds) :
           doc = CvDoc(WithGroup, OneSoftware, None, None, <<CvTerm(t, "1")>>)

\* The elements a repeatable descriptor rooted at the second term meets:
\* two that differ in their value only, and one that does not qualify.
CardinalityElements ==
    {CvTerm(TermIds[2], "1"), CvTerm(TermIds[2], "2"), CvTerm(TermIds[1], "1")}

InitCvCardinality ==
    /\ onto = ChainVocabulary
    /\ \E value \in BOOLEAN, merge \in BOOLEAN :
           parameters =
               <<CVParameter(TermIds[2], TRUE, <<"Repeatable">>, TRUE, value,
                             FALSE, merge)>>
    /\ \E cvs \in SeqsUpTo(CardinalityElements, MaxElements) :
           doc = CvDoc(WithGroup, OneSoftware, None, None, cvs)

\* A descriptor with an associated software, on documents that name the
\* software on the processing method, on the data processing, or not at all.
InitCvSoftware ==
    /\ onto = ChainVocabulary
    /\ parameters \in
           {<<CVParameter(TermIds[1], FALSE, <<"Data", "Processing", "Parameter">>,
                          TRUE, TRUE, TRUE, FALSE)>>,
            <<CVParameter(TermIds[1], TRUE, <<"Data", "Transformation", "Name">>,
                          TRUE, FALSE, TRUE, FALSE)>>}
    /\ \E group \in {<<>>, WithGroup}, software \in SoftwareLists,
          dataProcessingRef \in {None, Some("sw")},
          processingMethodRef \in {None, Some("sw"), Some("other")} :
           doc = CvDoc(group, software, dataProcessingRef, processingMethodRef,
                       <<CvTerm(TermIds[2], "1")>>)

\* A descriptor whose display name the element may bear, in either case,
\* the value of the element being the text of a number or not.
InitCvNamed ==
    /\ onto = ChainVocabulary
    /\ \E cv \in BOOLEAN, plus1 \in BOOLEAN :
           parameters =
               <<CVParameter(TermIds[1], cv, <<"Repeatable">>, plus1, TRUE,
                             FALSE, FALSE)>>
    /\ \E name \in {"Repeatable", "repeatable", "other"},
          value \in {"58", "n/a"} :
           doc = CvDoc(WithGroup, OneSoftware, None, None,
                       <<Elem("s:cvParam",
                              [accession |-> TermIds[2], name |-> name,
                               cvRef |-> "MS", value |-> value], <<>>)>>)

InitCv ==
    /\ InitCommon
    /\ mode = "mzmlfile"
    /\ pc = "cv_params"
    /\ urls = <<>>
    /\ metas = <<>>
    /\ location = XPATH_data_processing
    /\ \/ InitCvMembership
       \/ InitCvCardinality
       \/ InitCvSoftware
       \/ InitCvNamed

NextCv ==
    \/ BuildEnvironment
    \/ ExtractCvParamsNext
    \/ ExtractCvParamsDone

SpecCv == InitCv /\ [][NextCv]_vars

\* Any vocabulary under the instrument model root, any of its terms as the
\* instrument of a well-formed document.
InitInstrumentWalk ==
    /\ onto \in InstrumentVocabularies
    /\ \E t \in Range(InstrumentTermIds) :
           doc = InstrumentDoc(TRUE, <<InstrumentTerm(t, TRUE)>>,
                               <<InstrumentConfiguration(TRUE, <<>>, SoftwareRef)>>,
                               OneSoftware)

\* The chain root -> A -> B -> T, in documents of every shape.
InitInstrumentShapes ==
    /\ onto = InstrumentChain
    /\ \E byRef \in BOOLEAN, named \in BOOLEAN, present \in BOOLEAN,
          softwareRef \in {<<>>, SoftwareRef}, software \in SoftwareLists,
          serial \in {<<>>, <<CvTerm("MS:1000529", "SN1")>>} :
           LET cvs == <<InstrumentTerm(TermIds[MaxTerms], named)>> \o serial
           IN  doc = InstrumentDoc(byRef, cvs,
                                   IF present
                                   THEN <<InstrumentConfiguration(byRef, cvs,
                                                                  softwareRef)>>
                                   ELSE <<>>,
                                   software)

InitInstrument ==
    /\ InitCommon
    /\ mode = "mzmlfile"
    /\ pc = "instrument"
    /\ urls = <<>>
    /\ metas = <<>>
    /\ parameters = InstrumentParameters
    /\ location = XPATH_ic_nest
    /\ \/ InitInstrumentWalk
       \/ InitInstrumentShapes

NextInstrument ==
    \/ BuildEnvironment
    \/ ExtractInstrument

SpecInstrument == InitInstrument /\ [][NextInstrument]_vars

InitEnvironment ==
    /\ doc \in SpectralDocs \cup InstrumentEnvDocs \cup AttributeDocs
    /\ mode = "mzmlfile"
    /\ pc = "environment"
    /\ InitScans

NextEnvironment ==
    \/ BuildEnvironment

SpecEnvironment == InitEnvironment /\ [][NextEnvironment]_vars

InitTwin ==
    /\ doc \in TwinDocs
    /\ mode \in {"collector", "mzmlfile"}
    /\ pc = "mzrange"
    /\ InitScans

NextTwin ==
    \/ BuildEnvironment
    \/ MzRangeProcessScan
    \/ MzRangePopulateMeta
    \/ ExtractMzrange

SpecTwin == InitTwin /\ [][NextTwin]_vars

\* The data file content family and a term outside it.
ContentTermIds == <<"MS:1000524", "MS:1000579", "MS:1000580">>

ContentVocabulary ==
    Oboparse(NoVocabulary, Stanzas(ContentTermIds, {<<2, 1>>, <<3, 1>>}))

ContentParams ==
    {Elem("s:cvParam", [accession |-> a, name |-> n, cvRef |-> "MS"], <<>>) :
        a \in {"MS:1000579", "MS:1000580", "MS:1000130"}, n \in {"x", "y"}}

\* Documents whose spectra carry up to two named cvParams of their own.
ContentDocs ==
    {MzML([k \in DOMAIN cvs |-> Spectrum(cvs[k], <<>>, "s:scanWindow", <<>>)]) :
        cvs \in SeqsUpTo(SeqsUpTo(ContentParams, 2), MaxScans)}

InitDataFileContent ==
    /\ doc \in ContentDocs
    /\ mode \in {"collector", "mzmlfile"}
    /\ pc = "data_file_content"
    /\ InitCommon
    /\ urls = <<>>
    /\ metas = <<>>
    /\ onto = ContentVocabulary
    /\ parameters = <<>>
    /\ location = <<>>

NextDataFileContent ==
    \/ BuildEnvironment
    \/ DataFileContentProcessScan
    \/ DataFileContentPopulateMeta
    \/ ExtractDataFileContent

SpecDataFileContent == InitDataFileContent /\ [][NextDataFileContent]_vars

\* The document with the count of its spectra on the spectrum list.
WithCount(d) ==
    [d EXCEPT !.children[1].children[1].attrib =
                  [count |-> Digits[Len(d.children[1].children[1].children) + 1]]]

\* The families of the data file content and of the scan polarity.
ScanTermIds ==
    <<"MS:1000524", "MS:1000579", "MS:1000580", "MS:1000465", "MS:1000130">>

ScanVocabulary ==
    Oboparse(NoVocabulary,
             Stanzas(ScanTermIds, {<<2, 1>>, <<3, 1>>, <<5, 4>>}))

\* MzMLFile.metadata from _extract_polarity to _extract_scan_parameters; of
\* the dictionary, the keys these steps write.
InitSummaries ==
    /\ doc \in PolarityDocs \cup TimeDocs \cup MzDocs
               \cup {WithCount(d) : d \in ContentDocs}
    /\ mode = "metadata"
    /\ pc = "polarity"
    /\ InitCommon
    /\ urls = <<>>
    /\ metas = <<>>
    /\ onto = ScanVocabulary
    /\ parameters = <<>>
    /\ location = <<>>

NextSummaries ==
    \/ BuildEnvironment
    \/ ExtractPolarity
    \/ ExtractTimerange
    \/ ExtractMzrange
    \/ ExtractScanNumber
    \/ ExtractScanParameters

SpecSummaries == InitSummaries /\ [][NextSummaries]_vars

\* A batch of at most MaxFiles files of one extension. The parser of a file
\* either raises or returns the metadata of the file: its sample name, its
\* spectrum representation and the names of its data files (the position of
\* the file in the batch stands for them).
SampleNames == {<<"a", "_">>, <<"a", "b">>}

\* The names files give the representation of their spectra: the two names
\* of the vocabulary, and the name mzML 1.0 had for centroided spectra.
Representations ==
    {"profile spectrum", "centroid spectrum", "centroid mass spectrum"}

FileMeta(k, name, representation) ==
    [key \in {"Sample Name", "MS Assay Name", "Spectrum representation",
              "Derived Spectral Data File", "Raw Spectral Data File"} |->
        CASE key = "Sample Name" -> [value |-> name]
          [] key = "MS Assay Name" -> [value |-> name]
          [] key = "Spectrum representation" ->
                 [entry_list |-> <<[name |-> representation]>>]
          [] OTHER -> [entry_list |-> <<[value |-> k]>>]]

Files(extension, k) ==
    {[ext |-> extension, raises |-> TRUE, meta |-> EmptyMeta]}
    \cup {[ext |-> extension, raises |-> FALSE,
           meta |-> FileMeta(k, name, representation)] :
              name \in SampleNames,
              representation \in Representations}

InitBatch ==
    /\ \E extension \in {"mzML", "imzML"}, n \in 0..MaxFiles :
           mzml_files \in {fs \in [1..n -> UNION {Files(extension, k) : k \in 1..n}] :
                              \A k \in 1..n : fs[k] \in Files(extension, k)}
    /\ multip \in BOOLEAN
    /\ merging \in BOOLEAN
    /\ metalist = <<>>
    /\ ext = None
    /\ written = None
    /\ doc = MzML(<<>>)
    /\ mode = "mzmlfile"
    /\ pc = "parse"
    /\ InitOneFile
    /\ urls = <<>>
    /\ metas = <<>>
    /\ onto = NoVocabulary
    /\ parameters = <<>>
    /\ location = <<>>

NextBatch ==
    \/ NoFiles
    \/ ParseFile
    \/ PoolMap
    \/ UpdateIsaTab

SpecBatch == InitBatch /\ [][NextBatch]_vars

\* The stanzas a file may hold for term i: it names some of the terms
\* before it, so that no file describes a cycle.
StanzasOf(i) ==
    {[id |-> TermIds[i],
      is_a |-> [k \in DOMAIN Sorted(parents) |-> TermIds[Sorted(parents)[k]]]] :
        parents \in SUBSET (1..(i - 1))}

\* The files of at most MaxStanzas stanzas; an id may come back.
RECURSIVE StanzaFiles(_)
StanzaFiles(n) ==
    IF n = 0 THEN {<<>>}
    ELSE StanzaFiles(n - 1)
         \cup {Append(f, st) :
                  f \in {g \in StanzaFiles(n - 1) : Len(g) = n - 1},
                  st \in UNION {StanzasOf(i) : i \in DOMAIN TermIds}}

InitObo ==
    /\ args \in StanzaFiles(MaxStanzas)
    /\ result = None
    /\ doc = MzML(<<>>)
    /\ mode = "mzmlfile"
    /\ pc = "oboparse"
    /\ NoBatch
    /\ InitParser
    /\ urls = <<>>
    /\ metas = <<>>
    /\ onto = NoVocabulary
    /\ parameters = <<>>
    /\ location = <<>>

NextObo == OboparseInit

SpecObo == InitObo /\ [][NextObo]_vars

\* The dictionaries the parser hands to the table: each has its sample
\* name and its instrument; the contents of the file and the number of scans
\* may be missing.
AssaySamples == <<"sample 1", "sample 2", "sample 3">>

ContentEntries ==
    {<<>>,
     <<[name |-> "MS1 spectrum", accession |-> "MS:1000579"]>>,
     <<[name |-> "MS1 spectrum", accession |-> "MS:1000579"],
       [name |-> "MSn spectrum", accession |-> "MS:1000580"]>>}

AssayMeta(k, instrument, entries, scans) ==
    LET always == [key \in {"Sample Name", "Parameter Value[Instrument]"} |->
                      IF key = "Sample Name" THEN [value |-> AssaySamples[k]]
                      ELSE instrument]
        content == IF entries = <<>> THEN always
                   ELSE Put(always, "Parameter Value[Data file content]",
                            [entry_list |-> entries])
    IN  IF scans = "" THEN content
        ELSE Put(content, "Parameter Value[Number of scans]",
                 [value |-> scans])

AssayMetas(k) ==
    {AssayMeta(k, instrument, entries, scans) :
        instrument \in {[name |-> "Q Exactive", accession |-> "MS:1001911"],
                        [name |-> "LTQ", accession |-> "MS:1000447"]},
        entries \in ContentEntries,
        scans \in {"", "58", "12"}}

InitAssay ==
    /\ \E n \in 1..MaxDocs :
           args \in {l \in [1..n -> UNION {AssayMetas(k) : k \in 1..n}] :
                        \A k \in 1..n : l[k] \in AssayMetas(k)}
    /\ result = None
    /\ doc = MzML(<<>>)
    /\ mode = "mzmlfile"
    /\ pc = "create_assay"
    /\ NoBatch
    /\ InitParser
    /\ urls = <<>>
    /\ metas = <<>>
    /\ onto = NoVocabulary
    /\ parameters = <<>>
    /\ location = <<>>

NextAssay == CreateAssay

SpecAssay == InitAssay /\ [][NextAssay]_vars

\* longest_substring on every pair of strings of at most MaxNameLen
\* characters.
RECURSIVE Strings(_)
Strings(n) ==
    IF n = 0 THEN {<<>>}
    ELSE Strings(n - 1)
         \cup {Append(w, c) : w \in Strings(n - 1), c \in Range(CharOrder)}

InitLongest ==
    /\ args \in Strings(MaxNameLen) \X Strings(MaxNameLen)
    /\ result = None
    /\ doc = MzML(<<>>)
    /\ mode = "mzmlfile"
    /\ pc = "longest_substring"
    /\ NoBatch
    /\ InitParser
    /\ urls = <<>>
    /\ metas = <<>>
    /\ onto = NoVocabulary
    /\ parameters = <<>>
    /\ location = <<>>

NextLongest == CallLongestSubstring

SpecLongest == InitLongest /\ [][NextLongest]_vars

\* ------------------------------------------------ claims

\* The cvParams that are direct children of the document's spectra, read
\* off the tree without any query.
Spectra(d) == d.children[1].children[1].children

CvChildren(e) == {c \in Range(e.children) : c.tag = "s:cvParam"}

SpectrumCvAccessions(d) ==
    UNION {{c.attrib.accession : c \in CvChildren(Spectra(d)[k])} :
              k \in DOMAIN Spectra(d)}

\* C1: after the whole sequence of scans has been observed, the emitted
\* 'Scan polarity' is 'alternating scan' (empty accession) iff both
\* MS:1000130 and MS:1000129 were seen, 'positive scan' (MS:1000130) iff only
\* MS:1000130 was seen, 'negative scan' (MS:1000129) iff only MS:1000129 was
\* seen, and 'n/a' (empty accession) iff neither was seen.
C1_PolarityTable ==
    pc = "done" =>
        LET p == "MS:1000130" \in SpectrumCvAccessions(doc)
            n == "MS:1000129" \in SpectrumCvAccessions(doc)
            entry == meta["Scan polarity"]
        IN  /\ "Scan polarity" \in DOMAIN meta
            /\ (entry.name = "alternating scan" /\ entry.accession = "")
                   <=> (p /\ n)
            /\ (entry.name = "positive scan" /\ entry.accession = "MS:1000130")
                   <=> (p /\ ~n)
            /\ (entry.name = "negative scan" /\ entry.accession = "MS:1000129")
                   <=> (n /\ ~p)
            /\ (entry.name = "n/a" /\ entry.accession = "") <=> (~p /\ ~n)

\* A stream whose first scan is positive and whose second is negative has
\* been classified by the collector.
C1_Witness ==
    /\ pc = "done" /\ mode = "collector"
    /\ Len(Spectra(doc)) = 2
    /\ {c.attrib.accession : c \in CvChildren(Spectra(doc)[1])} = {"MS:1000130"}
    /\ {c.attrib.accession : c \in CvChildren(Spectra(doc)[2])} = {"MS:1000129"}
    /\ meta["Scan polarity"].name = "alternating scan"

\* The scan of spectrum k and its window, read off the tree: the scanList
\* is the last child of a spectrum, the window list the last child of a scan.
ScanOf(d, k) ==
    LET sp == Spectra(d)[k]
    IN  sp.children[Len(sp.children)].children[1]

WindowOf(d, k) ==
    LET scan == ScanOf(d, k)
    IN  scan.children[Len(scan.children)].children[1]

\* The values the document gives for an accession at the scans (or at the
\* scan windows).
ValuesAt(e, accession) ==
    {c.attrib.value :
        c \in {x \in CvChildren(e) : x.attrib.accession = accession}}

ScanValues(d, accession) ==
    UNION {ValuesAt(ScanOf(d, k), accession) : k \in DOMAIN Spectra(d)}

WindowValues(d, accession) ==
    UNION {ValuesAt(WindowOf(d, k), accession) : k \in DOMAIN Spectra(d)}

\* C2: whatever the order of the scans and of the cvParams inside a scan,
\* the m/z-range accumulator (MzRange.process_scan per scan, then
\* populate_meta) ends with 'Scan m/z range' equal to
\* int(min of all lower limits) '-' int(max of all upper limits).
C2_MzRangeOrderIndependent ==
    (pc = "done" /\ mode = "collector"
        /\ WindowValues(doc, "MS:1000501") # {}
        /\ WindowValues(doc, "MS:1000500") # {})
    => /\ err = "none"
       /\ "Scan m/z range" \in DOMAIN meta
       /\ meta["Scan m/z range"].value =
              RangeValue(IntMz(SetMin(WindowValues(doc, "MS:1000501"))),
                         IntMz(SetMax(WindowValues(doc, "MS:1000500"))))

\* C3: the endpoints of the emitted 'Time range' are the (formatted) minimum
\* and maximum of all scan start times observed, whatever the order of the
\* scans, and no 'Time range' is written when no scan carried a start time.
C3_TimeRangeEndpoints ==
    pc = "done" =>
        LET times == ScanValues(doc, "MS:1000016")
        IN  /\ times = {} => "Time range" \notin DOMAIN meta
            /\ (times # {} /\ err = "none") => "Time range" \in DOMAIN meta
            /\ "Time range" \in DOMAIN meta =>
                  meta["Time range"].value =
                      IF mode = "collector"
                      THEN RangeValue(Round4(SetMin(times)), Round4(SetMax(times)))
                      ELSE RangeValue(Format3f(SetMin(times)),
                                      Format3f(SetMax(times)))

\* The collector has seen a later scan start before an earlier one and
\* emitted the range of the two.
C3_Witness ==
    /\ pc = "done" /\ mode = "collector"
    /\ Len(Spectra(doc)) = 2
    /\ ValuesAt(ScanOf(doc, 1), "MS:1000016") = {30}
    /\ ValuesAt(ScanOf(doc, 2), "MS:1000016") = {3}
    /\ "Time range" \in DOMAIN meta
    /\ meta["Time range"].value = RangeValue(4, 30)

\* C4: accession URL rewriting is idempotent: _urlize_accession applied to
\* its own result returns it unchanged, and a second _urlize_meta leaves the
\* dictionary as the first one left it.
C4_UrlizeIdempotent ==
    /\ Len(urls) = 3 => urls[3] = urls[2]
    /\ Len(metas) = 3 => metas[3] = metas[2]

\* A bare MS accession has been rewritten into its URL, and rewritten again.
C4_Witness ==
    /\ Len(urls) = 3
    /\ urls[1] = MS1
    /\ urls[2] = OboUrlPrefix \o <<"M", "S", "_", "1">>

\* An accession is bare when it starts with one of the three namespaces the
\* rewriting knows, followed by ":".
IsBare(a) ==
    \E ns \in {<<"M", "S", ":">>, <<"U", "O", ":">>, <<"I", "M", "S", ":">>} :
        Len(a) >= Len(ns) /\ SubSeq(a, 1, Len(ns)) = ns

RecordRewritten(r) ==
    /\ Has(r, "accession") => ~IsBare(r.accession)
    /\ (Has(r, "unit") /\ Has(r.unit, "accession")) => ~IsBare(r.unit.accession)

\* C5: after _urlize_meta every accession of the dictionary is in rewritten
\* form: each entry's accession and unit accession, and those of every
\* element of every entry_list, whatever its position and whatever the
\* elements before it contain.
C5_AllAccessionsRewritten ==
    Len(metas) >= 2 =>
        \A key \in DOMAIN metas[2] :
            /\ RecordRewritten(metas[2][key])
            /\ Has(metas[2][key], "entry_list") =>
                   \A k \in DOMAIN metas[2][key].entry_list :
                       RecordRewritten(metas[2][key].entry_list[k])

\* The is_a relation read upwards: the terms reached from those of S by
\* following parents, S included.
RECURSIVE AncestorsOrSelf(_, _)
AncestorsOrSelf(terms, S) ==
    LET up == S \cup UNION {Range(terms[t].p) : t \in S \cap DOMAIN terms}
    IN  IF up = S THEN S ELSE AncestorsOrSelf(terms, up)

\* T is R or a descendant of R, direct or transitive.
IsOrDescends(terms, term, root) == root \in AncestorsOrSelf(terms, {term})

\* The cvParam elements of the location, in document order.
LocationElements ==
    [k \in DOMAIN FindXPathPaths(doc, env, location) |->
        NodeAt(doc, FindXPathPaths(doc, env, location)[k])]

\* The elements of the location that qualify for a descriptor.
Qualifying(param_info) ==
    SelectSeq(LocationElements,
              LAMBDA e : IsOrDescends(onto, e.attrib.accession,
                                      param_info.accession))

Extracted == pc = "done" /\ err = "none"

\* C6: once _extract_cv_params has run over the elements of a location,
\* a descriptor rooted at R has an entry under its display name exactly when
\* one of the elements has an accession T that is R or a direct or
\* transitive descendant of R in the vocabulary.
C6_DescendantMembership ==
    Extracted =>
        \A k \in DOMAIN parameters :
            Key(parameters[k].name) \in DOMAIN meta
            <=> Qualifying(parameters[k]) # <<>>

\* An element two is_a hops below the root of the first descriptor has
\* produced its entry.
C6_Witness ==
    /\ Extracted
    /\ Len(LocationElements) = 1
    /\ LET term == LocationElements[1].attrib.accession
           root == parameters[1].accession
       IN  /\ term # root
           /\ term \in DOMAIN onto /\ root \notin Range(onto[term].p)
           /\ IsOrDescends(onto, term, root)
           /\ Key(parameters[1].name) \in DOMAIN meta

\* What tells two entries of a descriptor apart: the CV term when the
\* descriptor records one, the value when it records one, and the unit.
Signature(a, param_info) ==
    <<IF param_info.cv THEN <<a.accession, a.name, a[env["cvRef"][1]]>> ELSE <<>>,
      IF param_info.value THEN <<a.value>> ELSE <<>>,
      IF {"unitName", "unitCvRef", "unitAccession"} \subseteq DOMAIN a
      THEN <<a.unitName, a.unitCvRef, a.unitAccession>> ELSE <<>> >>

Distinct(param_info) ==
    {Signature(Qualifying(param_info)[k].attrib, param_info) :
        k \in DOMAIN Qualifying(param_info)}

\* The length the cardinality contract asks of the entry_list.
ExpectedLength(param_info) ==
    IF param_info.merge THEN Cardinality(Distinct(param_info))
    ELSE Len(Qualifying(param_info))

\* C7 as stated: over N qualifying elements a repeatable descriptor has,
\* under its display name, an entry_list of length N, or of as many entries
\* as are structurally distinct when it merges duplicates; N = 0 included.
C7_CardinalityAsStated ==
    Extracted =>
        \A k \in DOMAIN parameters :
            parameters[k].plus1 =>
                /\ Key(parameters[k].name) \in DOMAIN meta
                /\ Len(meta[Key(parameters[k].name)].entry_list)
                       = ExpectedLength(parameters[k])

\* C7: over N >= 1 qualifying elements a repeatable descriptor has, under
\* its display name, an entry_list of length N, or of as many entries as are
\* structurally distinct when it merges duplicates; over N = 0 qualifying
\* elements the dictionary has no entry under the display name at all.
C7_Cardinality ==
    Extracted =>
        \A k \in DOMAIN parameters :
            parameters[k].plus1 =>
                IF Qualifying(parameters[k]) = <<>>
                THEN Key(parameters[k].name) \notin DOMAIN meta
                ELSE /\ Key(parameters[k].name) \in DOMAIN meta
                     /\ Len(meta[Key(parameters[k].name)].entry_list)
                            = ExpectedLength(parameters[k])

\* Five qualifying elements, two of them structurally distinct, merged into
\* a list of two entries.
C7_Witness ==
    /\ Extracted
    /\ Len(parameters) = 1 /\ parameters[1].plus1 /\ parameters[1].merge
    /\ parameters[1].value
    /\ Len(Qualifying(parameters[1])) = 5
    /\ Len(meta[Key(parameters[1].name)].entry_list) = 2

\* The term recorded as the instrument.
InstrumentAccession == meta["Instrument"].accession

\* C8: when _extract_instrument has recorded an instrument term T that is a
\* strict descendant of the instrument model root MS:1000031, the term
\* recorded as "Instrument manufacturer" is T or an ancestor of T and is a
\* direct child of the root; on the chain root -> A -> B -> T it is A.
C8_ManufacturerWalk ==
    (/\ pc = "done" /\ err = "none"
     /\ "Instrument" \in DOMAIN meta
     /\ InstrumentAccession # "MS:1000031"
     /\ IsOrDescends(onto, InstrumentAccession, "MS:1000031"))
    => /\ "Instrument manufacturer" \in DOMAIN meta
       /\ LET man == meta["Instrument manufacturer"].accession
          IN  /\ IsOrDescends(onto, InstrumentAccession, man)
              /\ man \in DOMAIN onto
              /\ "MS:1000031" \in Range(onto[man].p)
              /\ (onto = InstrumentChain
                  /\ InstrumentAccession = InstrumentTermIds[4])
                 => man = InstrumentTermIds[2]

\* On the chain, the instrument three is_a hops below the root has its
\* manufacturer recorded as the child of the root.
C8_Witness ==
    /\ pc = "done" /\ err = "none"
    /\ onto = InstrumentChain
    /\ "Instrument" \in DOMAIN meta
    /\ InstrumentAccession = InstrumentTermIds[4]
    /\ "Instrument manufacturer" \in DOMAIN meta
    /\ meta["Instrument manufacturer"].accession = InstrumentTermIds[2]

\* The alternatives of a role whose presence query, expanded with the
\* environment, finds an element of the document.
Found(entry) ==
    {k \in DOMAIN entry.paths :
        IterFind(Root(doc), Format(entry.paths[k], env)) # <<>>}

Roles ==
    {EnvironmentPaths[n].key : n \in DOMAIN EnvironmentPaths}
    \cup {EnvironmentAttributes[n].key : n \in DOMAIN EnvironmentAttributes}

SwapTag(tag) ==
    CASE tag = "s:scanWindow" -> "s:selectionWindow"
      [] tag = "s:scanWindowList" -> "s:selectionWindowList"
      [] tag = "s:selectionWindow" -> "s:scanWindow"
      [] tag = "s:selectionWindowList" -> "s:scanWindowList"
      [] OTHER -> tag

\* The document that differs in the tags of the window lists only.
RECURSIVE Twin(_)
Twin(e) ==
    Elem(SwapTag(e.tag), e.attrib, [k \in DOMAIN e.children |-> Twin(e.children[k])])

\* The collector run over all the scans of a document.
CollectMz(d, e) ==
    MzRangeLoop([unit |-> None, minmz |-> PosInf, maxmz |-> NegInf],
                Concat([k \in DOMAIN ScanElements(d, e) |->
                           IterFind(<<ScanElements(d, e)[k]>>,
                                    Format(SCAN_XPATHS_scan_window_cv, e))]))

\* C10: the document and its twin, which differ in the tags of the window
\* lists only, have environments equal in every role but scanWindow, which
\* records the tag of each; _extract_mzrange gives both the same "Scan m/z
\* range" (or none to both), and the collector ends in the same range.
C10_TwinWindows ==
    pc = "done" =>
        LET twin == Environment(Twin(doc)).env
        IN  /\ DOMAIN twin = DOMAIN env
            /\ \A role \in DOMAIN env \ {"scanWindow"} : twin[role] = env[role]
            /\ env["scanWindow"] # None =>
                   twin["scanWindow"] = Some(SwapTag(env["scanWindow"][1]))
            /\ mode = "mzmlfile" =>
                   MzrangeOf(Twin(doc), twin, EmptyMeta, {}).meta = meta
            /\ mode = "collector" => CollectMz(Twin(doc), twin) = mzRange

\* A document with selectionWindow tags has had its m/z range extracted.
C10_Witness ==
    /\ pc = "done" /\ mode = "mzmlfile"
    /\ env["scanWindow"] = Some("s:selectionWindow")
    /\ "Scan m/z range" \in DOMAIN meta

\* C11: in a batch of several files, a file whose parser raises does not abort
\* the batch: the run ends normally, and the metadata of every other file
\* reaches the writer, with or without a worker pool.
Delivered(k) ==
    /\ written # None
    /\ \E j \in DOMAIN written[1].metalist :
           [value |-> k] \in
               Range(written[1].metalist[j]["Derived Spectral Data File"].entry_list)

C11_BatchIsolation ==
    pc \in {"done", "raised"} /\ Len(mzml_files) >= 2
        => /\ pc = "done"
           /\ \A k \in DOMAIN mzml_files : ~mzml_files[k].raises => Delivered(k)

\* C12: while MzMLFile.metadata computes the scan summaries, every scan
\* element is visited once, in document order: no summary visits a scan
\* element that an earlier traversal has visited.
C12_SinglePass ==
    mode = "metadata"
        => /\ \A i, j \in DOMAIN visits : i < j => visits[i] < visits[j]
           /\ pc = "done" /\ err = "none" => visits = ScanVisits(doc, env)

\* The entries of the data file content family among the cvParams of the
\* spectra: the first occurrence of each accession, in document order.
FirstOccurrences(d, e, file_contents) ==
    LET cvs == FindXPath(d, e, XPATH_sp_cv)
        first(k) == /\ cvs[k].attrib.accession \in file_contents
                    /\ \A j \in 1..(k - 1) :
                           cvs[j].attrib.accession # cvs[k].attrib.accession
        keep == Sorted({k \in DOMAIN cvs : first(k)})
    IN  [k \in DOMAIN keep |->
            [name |-> cvs[keep[k]].attrib.name,
             ref |-> cvs[keep[k]].attrib.cvRef,
             accession |-> cvs[keep[k]].attrib.accession]]

\* C13: the fallback, in the collector and in MzMLFile alike, ends with a
\* 'Data file content' entry list holding one entry per distinct accession of
\* the family seen on the scans, the first occurrence of each, in order of
\* first occurrence, and nothing else.
C13_DataFileContentFallback ==
    pc = "done" /\ "MS:1000524" \in DOMAIN onto
        => /\ err = "none"
           /\ "Data file content" \in DOMAIN meta
           /\ meta["Data file content"].entry_list
                  = FirstOccurrences(doc, env, {"MS:1000579", "MS:1000580"})

\* C14: for a document without instrument list (the role "instrument" has
\* no matching alternative), _extract_instrument finds nothing and returns
\* without raising.
C14_StructuralAbsence ==
    /\ env # NotCached
    /\ env["instrument"] = None
    /\ pc \in {"done", "raised"}
    => err = "none"

\* The elements of a document.
RECURSIVE AllElements(_)
AllElements(e) == {e} \cup UNION {AllElements(c) : c \in Range(e.children)}

\* The names the document declares for an accession.
DeclaredNames(accession) ==
    {el.attrib.name :
        el \in {x \in AllElements(doc) :
                   /\ x.tag = "s:cvParam"
                   /\ Has(x.attrib, "name")
                   /\ x.attrib.accession = accession}}

MismatchWarning ==
    "The instrument name in the mzML file does not correspond to the instrument accession"

\* C15: after _extract_instrument, an 'Instrument' entry bears the name the
\* vocabulary gives to its accession, and the mismatch warning has been
\* emitted exactly when the document declared another name for it.
C15_OntologyName ==
    (pc = "done" /\ "Instrument" \in DOMAIN meta)
    => /\ meta["Instrument"].name = TermName(InstrumentAccession)
       /\ MismatchWarning \in warned
              <=> DeclaredNames(InstrumentAccession) # {TermName(InstrumentAccession)}

\* An instrument declared under another name has been recorded under the
\* name of the vocabulary, with the warning.
C15_Witness ==
    /\ pc = "done" /\ "Instrument" \in DOMAIN meta
    /\ DeclaredNames(InstrumentAccession) = {"other"}
    /\ meta["Instrument"].name = TermName(InstrumentAccession)
    /\ MismatchWarning \in warned

\* The software reference of the first element of the location: the
\* softwareRef of its parent, else that of its grandparent.
SoftwareReference ==
    LET ip == FindXPathPaths(doc, env, location)[1]
        parent == NodeAt(doc, Parent(ip)).attrib
        grandparent == NodeAt(doc, Parent(Parent(ip))).attrib
    IN  IF Has(parent, "softwareRef") THEN Some(parent.softwareRef)
        ELSE IF Has(grandparent, "softwareRef") THEN Some(grandparent.softwareRef)
        ELSE None

\* The software definitions of the document with the given id.
SoftwareDefinitions(id) ==
    {x \in AllElements(doc) :
        x.tag = "s:software" /\ Has(x.attrib, "id") /\ x.attrib.id = id}

\* The descriptor with an associated software has been extracted.
SoftwareExtracted ==
    /\ Extracted
    /\ Len(parameters) = 1 /\ parameters[1].software
    /\ LocationElements # <<>>

\* The prefix the software keys are expected under.
ExpectedPrefix ==
    IF parameters[1].name = <<"Data", "Transformation", "Name">>
    THEN "Data Transformation"
    ELSE "Data Processing Parameter"

\* C16: when _extract_software is given a prefix ending in " Name", the keys
\* it writes are the prefix without " Name" followed by " software" and
\* " software version", never the whole prefix followed by them; another
\* prefix is used as it is. With a definition found, the software key is
\* written when the definition has a cvParam.
C16_SoftwareKeyNaming ==
    SoftwareExtracted =>
        /\ DOMAIN meta \subseteq {Key(parameters[1].name),
                                  ExpectedPrefix \o " software",
                                  ExpectedPrefix \o " software version"}
        /\ \A x \in (IF SoftwareReference = None THEN {}
                      ELSE SoftwareDefinitions(SoftwareReference[1])) :
               x.children # <<>> => (ExpectedPrefix \o " software") \in DOMAIN meta

\* 'Data Transformation Name' has given 'Data Transformation software' and
\* its version.
C16_Witness ==
    /\ SoftwareExtracted
    /\ parameters[1].name = <<"Data", "Transformation", "Name">>
    /\ "Data Transformation software" \in DOMAIN meta
    /\ "Data Transformation software version" \in DOMAIN meta
    /\ "Data Transformation Name" \in DOMAIN meta

\* C17: 'Instrument manufacturer' is left unset when the recorded instrument
\* term is not, and has no ancestor that is, a direct child of the root
\* MS:1000031; whenever it is present its accession is a direct child of the
\* root.
C17_ManufacturerIsChild ==
    (/\ pc = "done"
     /\ Children(onto, "MS:1000031") # {}
     /\ "Instrument" \in DOMAIN meta)
    => /\ AncestorsOrSelf(onto, {InstrumentAccession})
               \cap Children(onto, "MS:1000031") = {}
           => "Instrument manufacturer" \notin DOMAIN meta
       /\ "Instrument manufacturer" \in DOMAIN meta
           => meta["Instrument manufacturer"].accession
                  \in Children(onto, "MS:1000031")

\* C18: when a cvParam of the instrument configuration has the accession of
\* the root MS:1000031 itself, the 'Instrument' entry, if any, has another
\* accession.
C18_RootNotRecorded ==
    (/\ pc = "done"
     /\ Children(onto, "MS:1000031") # {}
     /\ DeclaredNames("MS:1000031") # {}
     /\ "Instrument" \in DOMAIN meta)
    => InstrumentAccession # "MS:1000031"

\* The definitions the software reference of the descriptor resolves to.
ReferencedDefinitions ==
    IF SoftwareReference = None THEN {}
    ELSE SoftwareDefinitions(SoftwareReference[1])

\* C19: once the descriptor with an associated software has been handled,
\* the key '<prefix> software version' is present exactly when a definition
\* with the referenced id exists and has a version attribute that is not
\* empty; a definition whose version is missing or empty gives no version
\* key and no exception.
C19_SoftwareVersion ==
    (/\ pc \in {"done", "raised"}
     /\ Len(parameters) = 1 /\ parameters[1].software
     /\ LocationElements # <<>>
     /\ SoftwareReference # None)
    => /\ (ExpectedPrefix \o " software version") \in DOMAIN meta
           <=> \E x \in ReferencedDefinitions :
                   Has(x.attrib, "version") /\ x.attrib.version # ""
       /\ \A x \in ReferencedDefinitions :
              (~Has(x.attrib, "version") \/ x.attrib.version = "")
                  => err = "none"

\* C20: when the element matched by a descriptor with an associated software
\* has a softwareRef on neither its parent nor its grandparent, the
\* extraction does not raise: the entry of the descriptor is recorded and
\* the software keys are omitted.
C20_UnresolvableReference ==
    (/\ pc \in {"done", "raised"}
     /\ Len(parameters) = 1 /\ parameters[1].software
     /\ LocationElements # <<>>
     /\ SoftwareReference = None)
    => /\ err = "none"
       /\ DOMAIN meta = {Key(parameters[1].name)}

\* str.lower() on the names the documents and the descriptors use.
Lower(name) == IF name = "Repeatable" THEN "repeatable" ELSE name

\* C21: for a repeatable descriptor, the entry appended for an element whose
\* name equals the display name of the descriptor, case ignored, has no name,
\* accession or ref field; for another element these fields are kept.
C21_RedundantNameDropped ==
    (/\ Extracted
     /\ Len(parameters) = 1
     /\ parameters[1].plus1 /\ parameters[1].cv
     /\ Len(LocationElements) = 1
     /\ Key(parameters[1].name) \in DOMAIN meta)
    => LET entry == meta[Key(parameters[1].name)].entry_list[1]
           fields == DOMAIN entry \cap {"name", "accession", "ref"}
       IN  IF Lower(LocationElements[1].attrib.name)
                  = Lower(Key(parameters[1].name))
           THEN fields = {}
           ELSE fields = {"name", "accession", "ref"}

\* The texts of the documents that int() or float() accept.
ParsesAsNumber(text) == text \in {"1", "2", "58", "1.0"}

\* C24: the value captured for a descriptor with a value is the number its
\* text denotes when the text parses as an integer or else as a float, so
\* that it is then no longer the text itself; a text that parses as neither
\* is stored unchanged.
C24_ValueConverted ==
    (/\ Extracted
     /\ Len(parameters) = 1 /\ parameters[1].value
     /\ Len(LocationElements) = 1
     /\ Key(parameters[1].name) \in DOMAIN meta)
    => LET stored == IF parameters[1].plus1
                     THEN meta[Key(parameters[1].name)].entry_list[1].value
                     ELSE meta[Key(parameters[1].name)].value
           text == LocationElements[1].attrib.value
       IN  IF ParsesAsNumber(text) THEN stored # text ELSE stored = text

\* C22: MzMLFile.metadata, called as it is, without any request for the
\* per-scan extraction, runs no per-scan extraction: the dictionary gets no
\* entry list from the scans.
C22_ScanParametersGated ==
    mode = "metadata"
        => \A key \in DOMAIN meta : ~Has(meta[key], "entry_list")

\* The file a dictionary handed to the writer was extracted from: its first
\* derived data file is that of the file.
OriginOf(m) == m["Derived Spectral Data File"].entry_list[1].value

\* C23: the dictionary extracted from a file is not changed afterwards: the
\* dictionaries the writer receives are, key for key, as extraction returned
\* them.
C23_DictionaryImmutable ==
    written # None
        => \A j \in DOMAIN written[1].metalist :
               written[1].metalist[j]
                   = mzml_files[OriginOf(written[1].metalist[j])].meta

\* C25: after any sequence of MzRange.process_scan calls,
\* MzRange.populate_meta does not raise, and the 'Scan m/z range' it writes,
\* if any, is a pair of finite integers lo <= hi.
C25_MzRangePopulateTotal ==
    (mode = "collector" /\ pc = "done")
    => /\ err = "none"
       /\ "Scan m/z range" \in DOMAIN meta
              => LET value == meta["Scan m/z range"].value
                 IN  value[1] \in Int /\ value[2] \in Int
                         /\ value[1] <= value[2]

\* What a run of full_parse without a pool hands the writer for the files:
\* the dictionaries in the order of the files, grouped when asked for, and
\* the extension of the last file.
SequentialInputs ==
    LET parsed == [k \in DOMAIN mzml_files |-> mzml_files[k].meta]
        last == mzml_files[Len(mzml_files)].ext
        merged == IF merging /\ last = "imzML"
                  THEN MergeSpectra(parsed) ELSE parsed
    IN  IF merged = <<>> THEN None
        ELSE Some([metalist |-> merged, ext |-> last])

\* C28: when no file fails to parse, full_parse ends by handing the writer
\* the same dictionaries, in the same order, and the same datatype tag,
\* whether the files went through the worker pool or not.
C28_PoolAsSequential ==
    (/\ pc \in {"done", "raised"}
     /\ mzml_files # <<>>
     /\ \A k \in DOMAIN mzml_files : ~mzml_files[k].raises)
    => written = SequentialInputs

\* C26: grouping the dictionaries of a batch loses no document: when
\* full_parse is done, every parsed file is represented in the list it
\* ended with, either by its own dictionary or by the merged dictionary of
\* its pair.
C26_NoDocumentLost ==
    (pc = "done" /\ mzml_files # <<>>)
    => \A k \in DOMAIN mzml_files :
           \E j \in DOMAIN metalist :
               \E e \in DOMAIN metalist[j]["Derived Spectral Data File"].entry_list :
                   metalist[j]["Derived Spectral Data File"].entry_list[e].value = k

\* s occurs in t as a contiguous substring.
OccursIn(s, t) ==
    \E i \in 0..(Len(t) - Len(s)) : SubSeq(t, i + 1, i + Len(s)) = s

\* C30: longest_substring(a, b) occurs in a and in b, and no string that
\* occurs in both is longer; so longest_substring(a, a) = a and the result
\* is not empty when a and b share a character.
C30_LongestCommonSubstring ==
    (pc = "done" /\ result # None /\ Len(args) = 2)
    => /\ OccursIn(result[1], args[1])
       /\ OccursIn(result[1], args[2])
       /\ \A s \in Strings(MaxNameLen) :
              OccursIn(s, args[1]) /\ OccursIn(s, args[2])
                  => Len(s) <= Len(result[1])
       /\ args[1] = args[2] => result[1] = args[1]

\* C29: in the graph oboparse builds from a file, whatever ids its stanzas
\* repeat, T is a descendant of R exactly when R is an ancestor of T, and
\* both sets hold the id they are asked about.
C29_AncestorsMirrorDescendents ==
    pc = "done"
    => \A r \in Range(TermIds), t \in Range(TermIds) :
           /\ t \in GetDescendents(onto, r) <=> r \in GetAncestors(onto, t)
           /\ r \in GetDescendents(onto, r)
           /\ r \in GetAncestors(onto, r)

\* C27: in the table create_assay writes, the columns of row k named after
\* a field that document k does not have are empty, whatever the documents
\* before it had; the columns of a field it has start with its own value.
C27_RowFromOwnDocument ==
    (pc = "done" /\ result # None)
    => \A k \in DOMAIN args :
           \A i \in DOMAIN result[1].headers :
               LET key == result[1].headers[i]
                   cell == result[1].rows[k][i]
               IN  /\ (key \in Range(AssayKeys) /\ key \notin DOMAIN args[k])
                          => cell = ""
                   /\ (key = "Parameter Value[Number of scans]"
                           /\ key \in DOMAIN args[k])
                          => cell = args[k][key].value

====
